---- MODULE Spec2Model ----
(***************************************************************************)
(* gerbmerge3 placement search: the exhaustive search and the two random   *)
(* search engines (tilesearch.py, tilesearch2.py), their wrappers and the  *)
(* caller tile_jobs (gerbmerge.py), over a Tiling occupancy model.          *)
(*                                                                         *)
(* tiling.py and tilesearch1.py are not part of the source tree; the       *)
(* Tiling operators and the tail search of tilesearch2.TileSearch.run are  *)
(* modelled from the design document (sections 3, 4.1, 4.2).               *)
(***************************************************************************)
EXTENDS Integers, Sequences, FiniteSets, TLC

\* ------------------------------------------------------------- bounds
\* Largest job dimension drawn for an input job.
MaxDim == 2
\* Largest panel edge drawn for an input panel.
MaxPanel == 3
\* Largest x/y spacing drawn.
MaxSpacing == 1
\* Largest SearchTimeout drawn (seconds).
MaxTimeout == 1
\* Largest exhaustive-tail size drawn for random search.
MaxTail == 2
\* The placements counter (and, in random search, the permutations counter)
\* saturates here.
MaxCount == 2
\* Most job entries handed to exhaustive search / to random search.
MaxJobs == 3
MaxRandomJobs == 2
\* Most jobs in the catalog and largest repeat count of one job.
MaxCatalog == 2
MaxRepeat == 2
\* Most children of a panel or of a layout element, most records of a
\* placement or of a placement file, largest margin and coordinate.
MaxChildren == 2
MaxRecords == 2
MaxMargin == 1
MaxCoord == 1
\* First clock value: seconds since the epoch when the program starts.
Epoch == 4

\* float("inf"): larger than every area of the model.
Inf == 1000000

\* OriginX = OriginY = 0.1, in units of the model.
Origin == 1

None == <<>>
Some(v) == <<v>>

Min2(a, b) == IF a <= b THEN a ELSE b
Max2(a, b) == IF a >= b THEN a ELSE b

SetMin(S) == CHOOSE m \in S : \A n \in S : m <= n

SetMax(S) == CHOOSE m \in S : \A n \in S : m >= n

RECURSIVE Pow2(_)
Pow2(n) == IF n = 0 THEN 1 ELSE 2 * Pow2(n - 1)

RECURSIVE factorial(_)
factorial(n) == IF n = 0 THEN 1 ELSE n * factorial(n - 1)

\* Jobs[:ix] + Jobs[ix+1:] for the 1-based index ix.
RemoveAt(s, ix) == [i \in 1..(Len(s) - 1) |-> IF i < ix THEN s[i] ELSE s[i + 1]]

\* ------------------------------------------------------------- Tiling
\* A Tiling: panel W x H, spacing, the placed rectangles in placing order
\* and the candidate anchors kept as bookkeeping.
Tiling(X, Y, xspacing, yspacing) ==
    [W |-> X, H |-> Y, xs |-> xspacing, ys |-> yspacing,
     rects |-> <<>>, pts |-> {<<0, 0>>}]

clone(T) == T

Overlap(a, b) ==
    /\ a.x < b.x + b.w
    /\ b.x < a.x + a.w
    /\ a.y < b.y + b.h
    /\ b.y < a.y + a.h

\* A w x h rectangle anchored at p stays in the panel and overlaps nothing.
Fits(T, p, w, h) ==
    /\ p[1] + w <= T.W
    /\ p[2] + h <= T.H
    /\ \A i \in 1..Len(T.rects) :
          ~Overlap([x |-> p[1], y |-> p[2], w |-> w, h |-> h], T.rects[i])

PtLess(p, q) == p[1] < q[1] \/ (p[1] = q[1] /\ p[2] < q[2])

RECURSIVE SortPts(_)
SortPts(S) ==
    IF S = {} THEN <<>>
    ELSE LET m == CHOOSE p \in S : \A q \in S \ {p} : PtLess(p, q)
         IN <<m>> \o SortPts(S \ {m})

\* The ordered anchors where a w x h rectangle can be placed.
validAddPoints(T, w, h) == SortPts({p \in T.pts : Fits(T, p, w, h)})

\* Insert the rectangle at anchor p; its corners become candidate anchors.
addJob(T, p, w, h, job, rot) ==
    LET r == [x |-> p[1], y |-> p[2], w |-> w, h |-> h, job |-> job, rot |-> rot]
        new == {<<p[1] + w, p[2]>>, <<p[1], p[2] + h>>, <<p[1] + w, p[2] + h>>}
    IN [T EXCEPT !.rects = Append(@, r),
                 !.pts = {q \in (@ \ {p}) \cup new : q[1] < T.W /\ q[2] < T.H}]

\* Drop the anchors whose free region is smaller than minDim in an axis.
removeInlets(T, minDim) ==
    [T EXCEPT !.pts = {p \in @ : Fits(T, p, minDim, minDim)}]

minDimension(Jobs) ==
    SetMin({Min2(Jobs[i].Xdim, Jobs[i].Ydim) : i \in 1..Len(Jobs)})

\* Area of the bounding box of the placed rectangles.
area(T) ==
    IF Len(T.rects) = 0 THEN 0
    ELSE LET I == 1..Len(T.rects)
             minX == SetMin({T.rects[i].x : i \in I})
             minY == SetMin({T.rects[i].y : i \in I})
             maxX == SetMax({T.rects[i].x + T.rects[i].w : i \in I})
             maxY == SetMax({T.rects[i].y + T.rects[i].h : i \in I})
         IN (maxX - minX) * (maxY - minY)

RECURSIVE SumSeq(_)
SumSeq(s) == IF Len(s) = 0 THEN 0 ELSE Head(s) + SumSeq(Tail(s))

\* Sum of the placed rectangles' areas without the spacing padding.
usedArea(T) ==
    SumSeq([i \in 1..Len(T.rects) |->
              (T.rects[i].w - T.xs) * (T.rects[i].h - T.ys)])

\* The unit cell with lower-left corner (i, j) is covered by a rectangle.
Covered(T, i, j) ==
    \E k \in 1..Len(T.rects) :
        /\ T.rects[k].x <= i /\ i < T.rects[k].x + T.rects[k].w
        /\ T.rects[k].y <= j /\ j < T.rects[k].y + T.rects[k].h

\* Outline vertices of the union of the placed rectangles: a lattice point
\* is a vertex when 1 or 3 of its four cells are covered, and counts twice
\* when exactly two diagonal cells are.
corners(T) ==
    LET c(i, j) == IF Covered(T, i, j) THEN 1 ELSE 0
        at(i, j) ==
            LET n == c(i - 1, j - 1) + c(i, j - 1) + c(i - 1, j) + c(i, j)
            IN IF n = 1 \/ n = 3 THEN 1
               ELSE IF n = 2 /\ c(i - 1, j - 1) = c(i, j) THEN 2
               ELSE 0
    IN SumSeq([k \in 1..((T.W + 1) * (T.H + 1)) |->
                 at((k - 1) % (T.W + 1), (k - 1) \div (T.W + 1))])

\* canonicalize(originX, originY): a JobLayout for each placed rectangle,
\* the rotated counterpart for a rotated one, offset by the origin.
Tiling_canonicalize(T, OriginX, OriginY) ==
    [i \in 1..Len(T.rects) |->
        LET r == T.rects[i]
            base == <<"a", "b", "c", "d">>[r.job]
        IN [kind |-> "JobLayout",
            job |-> IF r.rot THEN <<base, "90">> ELSE <<base>>,
            x |-> OriginX + r.x,
            y |-> OriginY + r.y]]

\* ------------------------------------------------------------- inputs
Engines == {"tile_search1", "tile_search2", "tilesearch2"}

JobSpecs == [w : 1..MaxDim, h : 1..MaxDim, Repeat : 1..MaxRepeat]

Catalogs == UNION {[1..n -> JobSpecs] : n \in 1..MaxCatalog}

Entries(catalog) == SumSeq([i \in 1..Len(catalog) |-> catalog[i].Repeat])

\* 3 + (random.random() - 0.5) / 5, in tenths of a second: the value the
\* constructor will draw.
SyncPeriods == {29, 30}

\* tile_search1 builds its TileSearch with exhaustiveSearchJobs = 0.
AllConfigs ==
    {c \in [engine : Engines, catalog : Catalogs,
            PX : 1..MaxPanel, PY : 1..MaxPanel,
            xspacing : 0..MaxSpacing, yspacing : 0..MaxSpacing,
            RandomSearchExhaustiveJobs : 0..MaxTail,
            SearchTimeout : 0..MaxTimeout,
            syncPeriod : SyncPeriods] :
        IF c.engine = "tile_search1"
        THEN c.RandomSearchExhaustiveJobs = 0 /\ Entries(c.catalog) <= MaxJobs
        ELSE Entries(c.catalog) <= MaxRandomJobs}

\* Inputs of the specification whose clock stands still: every geometry,
\* no timeout.
Configs == {c \in AllConfigs : c.SearchTimeout = 0 /\ c.syncPeriod = 30}

\* Inputs of the specification whose clock runs: every timeout and period,
\* 1 x 1 jobs on a panel that holds them (MaxPanel x 1) or not (1 x 1),
\* without spacing.
TimedConfigs ==
    {c \in AllConfigs :
        /\ Len(c.catalog) = 1
        /\ c.catalog[1].w = 1 /\ c.catalog[1].h = 1
        /\ c.PX \in {1, MaxPanel} /\ c.PY = 1
        /\ c.xspacing = 0 /\ c.yspacing = 0}

\* The clock stops here: late enough for a report after the timeout.
MaxTime == Epoch + MaxTimeout + 4

VARIABLES config, L, x, currentTiling, joborder, pfx, stack, newTiling,
          pc, now, intr, outcome, tile, hist,
          opts, AutoSearchType, configJobs, Layout, Place, disk, saved

\* The state of merge outside the search: the command line, the search type
\* chosen, config.Jobs (the job names, configJobs), the layout tree, the placement
\* built and the files on disk; saved is history, the placement that
\* Placement.write wrote.
mergeVars == <<opts, AutoSearchType, configJobs, Layout, Place, disk, saved>>

\* The state of the search.
searchVars == <<L, x, currentTiling, joborder, pfx, stack, newTiling, now,
                intr, tile, hist>>

vars == <<config, L, x, currentTiling, joborder, pfx, stack, newTiling,
          pc, now, intr, outcome, tile, hist, mergeVars>>

\* Job names.  A name is the sequence of its parts around "*rotated":
\* <<"a">> is job a, <<"a", "90">> is a*rotated90.
NameOf == <<"a", "b", "c", "d">>
CatalogNames(catalog) == {<<NameOf[i]>> : i \in 1..Len(catalog)}

NoFiles == [place_file |-> <<>>, layoutfile |-> <<>>]

\* merge has reached the automatic layout: no layout file, no placement
\* file, the search type from --search.
AutoLayout ==
    /\ opts = [place_file |-> "none", layoutfile |-> "none",
               search |-> IF config.engine = "tile_search1"
                          THEN "exhaustive" ELSE "random"]
    /\ AutoSearchType = IF config.engine = "tile_search1"
                        THEN "EXHAUSTIVE_SEARCH" ELSE "RANDOM_SEARCH"
    /\ configJobs = CatalogNames(config.catalog)
    /\ Layout = <<>>
    /\ Place = <<>>
    /\ disk = NoFiles
    /\ saved = <<>>

\* ------------------------------------------------------------- tile_jobs
maxdimension(j) == Max2(j.w, j.h)

\* schwartz.schwartz(Jobs, key): the indices of Jobs in ascending key order,
\* ties in input order.
RECURSIVE schwartz(_, _)
schwartz(catalog, S) ==
    IF S = {} THEN <<>>
    ELSE LET m == CHOOSE i \in S : \A j \in S \ {i} :
                      \/ maxdimension(catalog[i]) < maxdimension(catalog[j])
                      \/ /\ maxdimension(catalog[i]) = maxdimension(catalog[j])
                         /\ i < j
         IN <<m>> \o schwartz(catalog, S \ {m})

\* reverse() that leaves the list as it is.
reverse_not(s) == s

reverse(s) == [i \in 1..Len(s) |-> s[Len(s) + 1 - i]]

RECURSIVE Expand(_, _)
Expand(catalog, order) ==
    IF order = <<>> THEN <<>>
    ELSE LET j == catalog[Head(order)]
         IN [count \in 1..j.Repeat |->
                [Xdim |-> j.w, Ydim |-> j.h, job |-> Head(order)]]
            \o Expand(catalog, Tail(order))

\* The list of (Xdim, Ydim, job, rjob) entries tile_jobs hands to the search;
\* rjob is job rotated by 90 degrees and is not stored separately.
JobList(catalog) ==
    Expand(catalog, reverse(schwartz(catalog, 1..Len(catalog))))

\* ------------------------------------------------------------- TileSearch
\* Tilings are objects: a reference is the value it reads together with the
\* identity of the object.  x.bestOid is the identity behind x.bestTiling,
\* the oid of a frame the identity behind its TSoFar; the Tiling a search
\* starts from is RootObject.
NoObject == 0 - 1
RootObject == 0

Unbound ==
    [bound |-> FALSE, startTime |-> -1, lastCheckTime |-> 0, syncPeriod |-> 0,
     bestTiling |-> None, bestOid |-> NoObject, bestScore |-> Inf,
     placements |-> 0, permutations |-> 0, possiblePermutations |-> 0]

N == Len(L)

\* M jobs are placed randomly, N - M exhaustively.
M == Max2(N - config.RandomSearchExhaustiveJobs, 0)

Bump(c, d, cap) == Min2(c + d, cap)

\* In random search the permutations counter grows with every trial.
PermCap == IF config.engine = "tile_search1" THEN Inf ELSE MaxCount

\* time.time() > self.lastCheckTime + self.syncPeriod, syncPeriod in tenths.
\* A report at every pass, whatever the time.
Due_always == TRUE

Due == 10 * now > 10 * x.lastCheckTime + x.syncPeriod

\* The timeout test without its "SearchTimeout > 0" guard.
TimedOut_unguarded == (now - x.startTime) > config.SearchTimeout

\* (self.SearchTimeout > 0) and ((time.time() - self.startTime) > self.SearchTimeout)
TimedOut ==
    /\ config.SearchTimeout > 0
    /\ (now - x.startTime) > config.SearchTimeout

\* History kept for stating properties: the tiling completed last in the
\* trial under way (all jobs placed) and what the comparison with the best
\* so far made of it ("unscored": it was never compared).
NoCoin == 2
NoHist == [completed |-> None, verdict |-> "none", coin |-> NoCoin]

Verdict(score, T, bestScore, bestTiling) ==
    IF score < bestScore THEN "area"
    ELSE IF score > bestScore THEN "worse"
    ELSE IF corners(T) < corners(bestTiling[1]) THEN "corners"
    ELSE IF corners(T) = corners(bestTiling[1]) THEN "tie"
    ELSE "worse"

Init ==
    /\ config \in Configs
    /\ L = <<>>
    /\ x = Unbound
    /\ currentTiling = None
    /\ joborder = <<>>
    /\ pfx = 0
    /\ stack = <<>>
    /\ newTiling = None
    /\ pc = "tile_jobs"
    /\ now = Epoch
    /\ intr = "none"
    /\ outcome = "running"
    /\ tile = None
    /\ hist = NoHist
    /\ AutoLayout

\* tile_jobs: build the job list and call the configured search.
tile_jobs_call ==
    /\ pc = "tile_jobs"
    /\ L' = JobList(config.catalog)
    /\ pc' = "construct"
    /\ UNCHANGED <<mergeVars, config, x, currentTiling, joborder, pfx, stack, newTiling,
                   now, intr, outcome, tile, hist>>

\* TileSearch.__init__; tilesearch2's sets no startTime and no permutations.
TileSearch_init ==
    /\ pc = "construct"
    /\ x' = [bound |-> TRUE,
             startTime |-> IF config.engine = "tilesearch2" THEN -1 ELSE now,
             lastCheckTime |-> 0,
             syncPeriod |-> config.syncPeriod,
             bestTiling |-> None,
             bestOid |-> NoObject,
             bestScore |-> Inf,
             placements |-> 0,
             permutations |-> 0,
             possiblePermutations |-> Pow2(N) * factorial(N)]
    /\ pc' = "search"
    /\ UNCHANGED <<mergeVars, config, L, currentTiling, joborder, pfx, stack, newTiling,
                   now, intr, outcome, tile, hist>>

Frame(Jobs, T, firstAddPoint, printStats) ==
    [Jobs |-> Jobs, TSoFar |-> T, firstAddPoint |-> firstAddPoint,
     printStats |-> printStats, job_ix |-> 1, phase |-> "call", k |-> 1,
     oid |-> RootObject]

\* tile_search1: x.ExhaustiveSearch(Jobs, tiling.Tiling(X,Y,xspacing,yspacing), True)
tile_search1_search ==
    /\ pc = "search"
    /\ config.engine = "tile_search1"
    /\ stack' = <<Frame(L, Tiling(config.PX, config.PY, config.xspacing,
                                  config.yspacing), TRUE, TRUE)>>
    /\ pc' = "es"
    /\ UNCHANGED <<mergeVars, config, L, x, currentTiling, joborder, pfx, newTiling,
                   now, intr, outcome, tile, hist>>

\* Entry of RandomSearch (tilesearch.py) and of run (tilesearch2.py), which
\* starts its own clock.
RandomSearch_enter ==
    /\ pc = "search"
    /\ config.engine # "tile_search1"
    /\ x' = IF config.engine = "tilesearch2"
            THEN [x EXCEPT !.startTime = now, !.lastCheckTime = now]
            ELSE x
    /\ pc' = "trial"
    /\ UNCHANGED <<mergeVars, config, L, currentTiling, joborder, pfx, stack, newTiling,
                   now, intr, outcome, tile, hist>>

Perms(n) == {f \in [1..n -> 1..n] : \A i, j \in 1..n : i # j => f[i] # f[j]}

\* A trial starting from a blank tiling without the configured spacing.
RandomSearch_trial_nospacing(order) ==
    /\ pc = "trial"
    /\ currentTiling' = Some(clone(Tiling(config.PX, config.PY, 0, 0)))
    /\ joborder' = order
    /\ pfx' = 1
    /\ pc' = "prefix"
    /\ UNCHANGED <<mergeVars, config, L, x, stack, newTiling, now, intr, outcome, tile, hist>>

\* Top of the while loop: a blank tiling and a random job order.
RandomSearch_trial(order) ==
    /\ pc = "trial"
    /\ currentTiling' = Some(clone(Tiling(config.PX, config.PY, config.xspacing,
                                          config.yspacing)))
    /\ joborder' = order
    /\ pfx' = 1
    /\ pc' = "prefix"
    /\ UNCHANGED <<mergeVars, config, L, x, stack, newTiling, now, intr, outcome, tile, hist>>

\* The prefix loop trying the other orientation when the coin's has no
\* add-point.
RandomSearch_place_retry(coin, n) ==
    /\ pc = "prefix"
    /\ pfx <= M
    /\ LET e == L[joborder[pfx]]
           T == removeInlets(currentTiling[1], minDimension(L))
           pts1 == validAddPoints(T, e.Xdim + config.xspacing, e.Ydim + config.yspacing)
           pts0 == validAddPoints(T, e.Ydim + config.xspacing, e.Xdim + config.yspacing)
           side == IF coin = 1 /\ pts1 = <<>> THEN 0
                   ELSE IF coin = 0 /\ pts0 = <<>> THEN 1 ELSE coin
           w == IF side = 1 THEN e.Xdim + config.xspacing
                ELSE e.Ydim + config.xspacing
           h == IF side = 1 THEN e.Ydim + config.yspacing
                ELSE e.Xdim + config.yspacing
           addpoints == validAddPoints(T, w, h)
       IN IF addpoints = <<>>
          THEN /\ n = 1
               /\ currentTiling' = Some(T)
               /\ pc' = "count"
               /\ pfx' = pfx
          ELSE /\ n \in 1..Len(addpoints)
               /\ currentTiling' = Some(addJob(T, addpoints[n], w, h, e.job, side = 0))
               /\ pfx' = pfx + 1
               /\ pc' = pc
    /\ hist' = [hist EXCEPT !.coin = coin]
    /\ UNCHANGED <<mergeVars, config, L, x, joborder, stack, newTiling, now, intr,
                   outcome, tile>>

\* One pass of the for loop over joborder[:M]: coin = 1 places the job,
\* coin = 0 the rotated job; no add-point breaks out of the trial.
RandomSearch_place(coin, n) ==
    /\ pc = "prefix"
    /\ pfx <= M
    /\ LET e == L[joborder[pfx]]
           T == removeInlets(currentTiling[1], minDimension(L))
           w == IF coin = 1 THEN e.Xdim + config.xspacing
                ELSE e.Ydim + config.xspacing
           h == IF coin = 1 THEN e.Ydim + config.yspacing
                ELSE e.Xdim + config.yspacing
           addpoints == validAddPoints(T, w, h)
       IN IF addpoints = <<>>
          THEN /\ n = 1
               /\ currentTiling' = Some(T)
               /\ pc' = "count"
               /\ pfx' = pfx
          ELSE /\ n \in 1..Len(addpoints)
               /\ currentTiling' = Some(addJob(T, addpoints[n], w, h, e.job, coin = 0))
               /\ pfx' = pfx + 1
               /\ pc' = pc
    /\ hist' = [hist EXCEPT !.coin = coin]
    /\ UNCHANGED <<mergeVars, config, L, x, joborder, stack, newTiling, now, intr,
                   outcome, tile>>

\* The for loop's else clause: the remaining jobs go to exhaustive search.
RandomSearch_tail ==
    /\ pc = "prefix"
    /\ pfx > M
    /\ LET remainingJobs == [i \in 1..(N - M) |-> L[joborder[M + i]]]
       IN IF N - M = 0
          THEN /\ pc' = "count"
               /\ stack' = stack
               /\ hist' = [completed |-> currentTiling, verdict |-> "unscored",
                           coin |-> NoCoin]
          ELSE IF config.engine = "tile_search2"
          THEN /\ stack' = <<Frame(remainingJobs, currentTiling[1], TRUE, FALSE)>>
               /\ pc' = "es"
               /\ hist' = NoHist
          ELSE pc' = "tail1" /\ stack' = stack /\ hist' = NoHist
    /\ UNCHANGED <<mergeVars, config, L, x, currentTiling, joborder, pfx, newTiling,
                   now, intr, outcome, tile>>

\* ------------------------------------------------------------- ExhaustiveSearch
Top == stack[Len(stack)]
Pop == SubSeq(stack, 1, Len(stack) - 1)
SetTop(f) == [stack EXCEPT ![Len(stack)] = f]

\* The objects some reference still holds, and an object no reference holds.
Live == {RootObject, x.bestOid} \cup {stack[i].oid : i \in 1..Len(stack)}
NewObject == CHOOSE o \in 0..(Cardinality(Live) + 1) :
                 o \notin Live /\ \A n \in 0..(o - 1) : n \in Live

\* A change made in place to object o shows through every reference to o.
InPlace(stk, o, T) ==
    [i \in 1..Len(stk) |-> IF stk[i].oid = o THEN [stk[i] EXCEPT !.TSoFar = T]
                           ELSE stk[i]]
InPlaceBest(o, T) ==
    IF x.bestOid = o THEN [x EXCEPT !.bestTiling = Some(T)] ELSE x
InPlaceCurrent(o, T) ==
    IF o = RootObject /\ currentTiling # None THEN Some(T) ELSE currentTiling

\* T = TSoFar: the branch works on the object it was given.
BranchObject_shared(TSoFar) == TSoFar

\* T = TSoFar.clone(): the branch works on a new object.
BranchObject(TSoFar) == NewObject

\* Better that only ever accepts the first completed tiling.
Better_first_only(score, T, bestScore, bestTiling) ==
    bestTiling = None /\ score < bestScore

\* Better that takes every completed tiling.
Better_always(score, T, bestScore, bestTiling) == TRUE

\* Better that also replaces the best tiling on a full tie.
Better_or_tie(score, T, bestScore, bestTiling) ==
    \/ score < bestScore
    \/ score = bestScore /\ corners(T) <= corners(bestTiling[1])

\* score < self.bestScore or (score == self.bestScore and
\* TSoFar.corners() < self.bestTiling.corners())
Better(score, T, bestScore, bestTiling) ==
    \/ score < bestScore
    \/ (score = bestScore /\ corners(T) < corners(bestTiling[1]))

\* remaining_jobs that drops no entry.
remaining_jobs_all(Jobs, job_ix) == Jobs

\* remaining_jobs dropping the first entry whichever job was placed.
remaining_jobs_first(Jobs, job_ix) == RemoveAt(Jobs, 1)

\* Jobs[:job_ix] + Jobs[job_ix+1:]
remaining_jobs(Jobs, job_ix) == RemoveAt(Jobs, job_ix)

\* Padded size of the job entry e, unrotated and rotated.
UnrotSize(e) == <<e.Xdim + config.xspacing, e.Ydim + config.yspacing>>
RotSize(e) == <<e.Ydim + config.xspacing, e.Xdim + config.yspacing>>

addpoints1(T, e) == validAddPoints(T, UnrotSize(e)[1], UnrotSize(e)[2])

\* addpoints2 that never offers the rotated job.
addpoints2_none(T, e) == <<>>

\* addpoints2 asking for the add-points of the unrotated size.
addpoints2_unrotated(T, e) ==
    IF e.Xdim # e.Ydim
    THEN validAddPoints(T, UnrotSize(e)[1], UnrotSize(e)[2])
    ELSE <<>>

\* No add-points for the rotated job when the job is a square.
addpoints2(T, e) ==
    IF e.Xdim # e.Ydim
    THEN validAddPoints(T, RotSize(e)[1], RotSize(e)[2])
    ELSE <<>>

\* The add-points of the loop the frame is in.
FramePts(f) ==
    IF f.phase = "unrot"
    THEN addpoints1(f.TSoFar, f.Jobs[f.job_ix])
    ELSE addpoints2(f.TSoFar, f.Jobs[f.job_ix])

\* Where control continues when the outermost ExhaustiveSearch call returns.
AfterSearch == IF config.engine = "tile_search1" THEN "stats" ELSE "count"

\* Job list empty: score the tiling, keep it if it is better, return.
ExhaustiveSearch_base ==
    /\ pc = "es"
    /\ Top.phase = "call"
    /\ Top.Jobs = <<>>
    /\ LET score == area(Top.TSoFar)
           best == IF Better(score, Top.TSoFar, x.bestScore, x.bestTiling)
                   THEN [x EXCEPT !.bestTiling = Some(Top.TSoFar),
                                  !.bestOid = Top.oid,
                                  !.bestScore = score]
                   ELSE x
       IN x' = IF Top.firstAddPoint
               THEN [best EXCEPT !.permutations = Bump(@, 1, PermCap)]
               ELSE best
    /\ stack' = Pop
    /\ pc' = IF Pop = <<>> THEN AfterSearch ELSE "es"
    /\ hist' = [completed |-> Some(Top.TSoFar),
                verdict |-> Verdict(area(Top.TSoFar), Top.TSoFar, x.bestScore,
                                    x.bestTiling),
                coin |-> NoCoin]
    /\ UNCHANGED <<mergeVars, config, L, currentTiling, joborder, pfx, newTiling, now,
                   intr, outcome, tile>>

\* minInletSize taken from the largest job dimension instead of the smallest.
minInletSize_largest(Jobs) ==
    SetMax({Max2(Jobs[i].Xdim, Jobs[i].Ydim) : i \in 1..Len(Jobs)})

\* minInletSize = tiling.minDimension(Jobs)
minInletSize(Jobs) == minDimension(Jobs)

\* Job list not empty: TSoFar.removeInlets(minDimension(Jobs)), then the loop
\* over the jobs.  The outermost call of random search works on the trial's
\* own currentTiling object.
ExhaustiveSearch_enter ==
    /\ pc = "es"
    /\ Top.phase = "call"
    /\ Top.Jobs # <<>>
    /\ LET T == removeInlets(Top.TSoFar, minInletSize(Top.Jobs))
       IN /\ stack' = InPlace(SetTop([Top EXCEPT !.phase = "unrot",
                                                 !.job_ix = 1, !.k = 1]),
                               Top.oid, T)
          /\ x' = InPlaceBest(Top.oid, T)
          /\ currentTiling' = InPlaceCurrent(Top.oid, T)
    /\ UNCHANGED <<mergeVars, config, L, joborder, pfx, newTiling, pc, now, intr,
                   outcome, tile, hist>>

\* One pass of "for ix in addpoints": clone, add the job (rotated in the
\* second loop) and recurse on the remaining jobs.
ExhaustiveSearch_recurse ==
    /\ pc = "es"
    /\ Top.phase \in {"unrot", "rot"}
    /\ Top.k <= Len(FramePts(Top))
    /\ LET e == Top.Jobs[Top.job_ix]
           ix == FramePts(Top)[Top.k]
           size == IF Top.phase = "unrot" THEN UnrotSize(e) ELSE RotSize(e)
           o == BranchObject(Top.oid)
           T == addJob(clone(Top.TSoFar), ix, size[1], size[2], e.job,
                       Top.phase = "rot")
           child == Frame(remaining_jobs(Top.Jobs, Top.job_ix), T,
                          Top.firstAddPoint /\ ix = FramePts(Top)[1], TRUE)
       IN /\ stack' = Append(InPlace(SetTop([Top EXCEPT !.k = @ + 1]), o, T),
                             [child EXCEPT !.oid = o])
          /\ x' = InPlaceBest(o, T)
          /\ currentTiling' = InPlaceCurrent(o, T)
    /\ UNCHANGED <<mergeVars, config, L, joborder, pfx, newTiling, pc,
                   now, intr, outcome, tile, hist>>

\* A pruned job orientation counted as one permutation.
PrunedPermutations_one(remaining) == 1

\* self.permutations += 2**len(remaining_jobs)
PrunedPermutations(remaining) == Pow2(Len(remaining))

\* The add-point loop is over, or there was no add-point: count the pruned
\* permutations in the latter case and go on.
ExhaustiveSearch_next ==
    /\ pc = "es"
    /\ Top.phase \in {"unrot", "rot"}
    /\ Top.k > Len(FramePts(Top))
    /\ x' = IF FramePts(Top) = <<>> /\ Top.firstAddPoint
            THEN [x EXCEPT !.permutations =
                     Bump(@, PrunedPermutations(remaining_jobs(Top.Jobs, Top.job_ix)),
                          PermCap)]
            ELSE x
    /\ stack' = SetTop([Top EXCEPT !.phase = IF @ = "unrot" THEN "rot" ELSE "stats",
                                   !.k = 1])
    /\ UNCHANGED <<mergeVars, config, L, currentTiling, joborder, pfx, newTiling, pc,
                   now, intr, outcome, tile, hist>>

\* End of one pass of the job loop: the periodic status report with the
\* timeout check, then the next job or the return.
ExhaustiveSearch_stats ==
    /\ pc = "es"
    /\ Top.phase = "stats"
    /\ LET report == Top.printStats /\ Due
           last == Top.job_ix = Len(Top.Jobs)
       IN /\ x' = IF report THEN [x EXCEPT !.lastCheckTime = now] ELSE x
          /\ IF report /\ TimedOut
             THEN /\ intr' = "timeout"
                  /\ pc' = "handler"
                  /\ stack' = <<>>
                  /\ currentTiling' = None
                  /\ joborder' = <<>>
                  /\ pfx' = 0
                  /\ hist' = NoHist
             ELSE /\ intr' = intr
                  /\ hist' = hist
                  /\ stack' = IF last THEN Pop
                              ELSE SetTop([Top EXCEPT !.job_ix = @ + 1,
                                                      !.phase = "unrot", !.k = 1])
                  /\ pc' = IF last /\ Pop = <<>> THEN AfterSearch ELSE "es"
                  /\ UNCHANGED <<currentTiling, joborder, pfx>>
    /\ UNCHANGED <<mergeVars, config, L, newTiling, now, outcome, tile>>

\* ------------------------------------------------------------- tilesearch1
\* Every completed tiling the exhaustive search of the design document
\* reaches from T: each remaining job, unrotated and (unless square)
\* rotated, at each of its add-points.
RECURSIVE Completions(_, _)
Completions(Jobs, T) ==
    IF Jobs = <<>> THEN {T}
    ELSE UNION {
           LET e == Jobs[job_ix]
               rest == RemoveAt(Jobs, job_ix)
               p1 == addpoints1(T, e)
               p2 == addpoints2(T, e)
           IN UNION ({Completions(rest, addJob(T, p1[n], UnrotSize(e)[1],
                                                UnrotSize(e)[2], e.job, FALSE)) :
                         n \in 1..Len(p1)}
                     \cup
                     {Completions(rest, addJob(T, p2[n], RotSize(e)[1],
                                                RotSize(e)[2], e.job, TRUE)) :
                         n \in 1..Len(p2)})
           : job_ix \in 1..Len(Jobs)}

\* The completed tilings no other one beats on (area, corners).
BestOf(S) ==
    {T \in S : \A U \in S :
        \/ area(T) < area(U)
        \/ (area(T) = area(U) /\ corners(T) <= corners(U))}

\* tilesearch1.initialize(0); tilesearch1._tile_search1(remainingJobs,
\* currentTiling, 1); newTiling = tilesearch1.bestTiling()
tilesearch1_tail ==
    /\ pc = "tail1"
    /\ LET remainingJobs == [i \in 1..(N - M) |-> L[joborder[M + i]]]
           S == BestOf(Completions(remainingJobs, currentTiling[1]))
       IN IF S = {}
          THEN newTiling' = None
          ELSE \E U \in S : newTiling' = Some(U)
    /\ pc' = "score"
    /\ UNCHANGED <<mergeVars, config, L, x, currentTiling, joborder, pfx, stack, now,
                   intr, outcome, tile, hist>>

\* run: score newTiling and compare it with the best so far.  With no
\* newTiling and no bestTiling the comparison of corners is reached and
\* newTiling.corners() raises AttributeError.
run_score ==
    /\ pc = "score"
    /\ LET score == IF newTiling # None THEN area(newTiling[1]) ELSE Inf
       IN IF score >= x.bestScore /\ score = x.bestScore /\ newTiling = None
          THEN /\ outcome' = "AttributeError"
               /\ pc' = "done"
               /\ x' = x
               /\ hist' = hist
          ELSE /\ x' = IF \/ score < x.bestScore
                          \/ /\ score = x.bestScore
                             /\ corners(newTiling[1]) < corners(x.bestTiling[1])
                       THEN [x EXCEPT !.bestTiling = newTiling,
                                      !.bestOid = NewObject,
                                      !.bestScore = score]
                       ELSE x
               /\ pc' = "count"
               /\ outcome' = outcome
               /\ hist' = IF newTiling = None THEN hist
                          ELSE [completed |-> newTiling,
                                verdict |-> Verdict(score, newTiling[1],
                                                    x.bestScore, x.bestTiling),
                                coin |-> NoCoin]
    /\ UNCHANGED <<mergeVars, config, L, currentTiling, joborder, pfx, stack, newTiling,
                   now, intr, tile>>

\* End of a trial: count it, report if a period has passed and check the
\* timeout at the report.
RandomSearch_count ==
    /\ pc = "count"
    /\ LET counted == [x EXCEPT !.placements = Bump(@, 1, MaxCount)]
       IN /\ x' = IF Due THEN [counted EXCEPT !.lastCheckTime = now] ELSE counted
          /\ IF Due /\ TimedOut
             THEN /\ intr' = "timeout"
                  /\ pc' = "handler"
             ELSE /\ intr' = intr
                  /\ pc' = "trial"
    /\ currentTiling' = None
    /\ joborder' = <<>>
    /\ pfx' = 0
    /\ newTiling' = None
    /\ hist' = NoHist
    /\ UNCHANGED <<mergeVars, config, L, stack, now, outcome, tile>>

\* ------------------------------------------------------------- wrappers
InTry ==
    \/ pc \in {"search", "trial", "prefix", "es", "tail1", "score", "count"}
    \/ pc = "construct" /\ config.engine # "tile_search1"

\* Ctrl-C while the wrapper's try block runs: control goes to its handler.
KeyboardInterrupt ==
    /\ InTry
    /\ intr = "none"
    /\ intr' = "external"
    /\ pc' = "handler"
    /\ stack' = <<>>
    /\ currentTiling' = None
    /\ joborder' = <<>>
    /\ pfx' = 0
    /\ newTiling' = None
    /\ hist' = NoHist
    /\ UNCHANGED <<mergeVars, config, L, x, now, outcome, tile>>

\* except KeyboardInterrupt: print(x) -- x is unbound when the interrupt
\* came before "x = TileSearch(...)" had finished.
handler ==
    /\ pc = "handler"
    /\ IF x.bound
       THEN pc' = "stats" /\ outcome' = outcome
       ELSE pc' = "done" /\ outcome' = "UnboundLocalError"
    /\ UNCHANGED <<mergeVars, config, L, x, currentTiling, joborder, pfx, stack,
                   newTiling, now, intr, tile, hist>>

\* computeTime = time.time() - x.startTime; print; return x.bestTiling
wrapper_return ==
    /\ pc = "stats"
    /\ IF x.startTime = -1
       THEN pc' = "done" /\ outcome' = "AttributeError" /\ tile' = tile
       ELSE pc' = "result" /\ outcome' = outcome /\ tile' = x.bestTiling
    /\ UNCHANGED <<mergeVars, config, L, x, currentTiling, joborder, pfx, stack,
                   newTiling, now, intr, hist>>

\* tile_jobs handing back whatever the search returned, None included.
tile_jobs_return_quiet ==
    /\ pc = "result"
    /\ outcome' = "returned"
    /\ pc' = "done"
    /\ UNCHANGED <<mergeVars, config, L, x, currentTiling, joborder, pfx, stack,
                   newTiling, now, intr, tile, hist>>

\* tile_jobs: if not tile: raise RuntimeError('Panel size ... is too small
\* to hold jobs'); return tile
tile_jobs_return ==
    /\ pc = "result"
    /\ outcome' = IF tile = None THEN "PanelTooSmall" ELSE "returned"
    /\ pc' = "done"
    /\ UNCHANGED <<mergeVars, config, L, x, currentTiling, joborder, pfx, stack,
                   newTiling, now, intr, tile, hist>>

\* The wall clock advances.
Tick ==
    /\ pc \in {"trial", "prefix", "es", "tail1", "score", "count"}
    /\ now < MaxTime
    /\ now' = now + 1
    /\ UNCHANGED <<mergeVars, config, L, x, currentTiling, joborder, pfx, stack,
                   newTiling, pc, intr, outcome, tile, hist>>

\* ------------------------------------------------------------- placement.py
\* Python values whose type matters: "90" == 90 is False.
PyStr(v) == [t |-> "str", s |-> v, n |-> 0]
PyInt(v) == [t |-> "int", s |-> "", n |-> v]
PyEq(a, b) == a.t = b.t /\ a.s = b.s /\ a.n = b.n
Truthy(a) == IF a.t = "str" THEN a.s # "" ELSE a.n # 0

\* An attribute the element does not have.
Absent == "<absent>"

\* str(x) of a coordinate and float(s) of a text; float raises ValueError on
\* a text that is no number.
NumText == <<"0", "1", "2", "3", "4", "5", "6", "7", "8">>
str(v) == NumText[v + 1]
IsNumber(text) == \E v \in 0..(Len(NumText) - 1) : NumText[v + 1] = text
float(text) == CHOOSE v \in 0..(Len(NumText) - 1) : NumText[v + 1] = text

\* s.lower()
lower(text) == IF text = "A" THEN "a" ELSE IF text = "B" THEN "b" ELSE text
lowername(name) == [i \in 1..Len(name) |-> lower(name[i])]

\* jobs.JobLayout(job) after setPosition(x, y).
JobLayout(name, px, py) == [kind |-> "JobLayout", job |-> name, x |-> px, y |-> py]

\* Placement.write: one board element per job; the name is split at
\* "*rotated" and the second part, if there is exactly one, becomes the
\* rotate attribute.
board(job) ==
    LET splitname == job.job
    IN [tag |-> "board",
        name |-> splitname[1],
        rotate |-> IF Len(splitname) = 2 THEN splitname[2] ELSE Absent,
        x |-> str(job.x),
        y |-> str(job.y)]

write(jobs) == [i \in 1..Len(jobs) |-> board(jobs[i])]

\* parselayout.findJob(jobname, rotated, Jobs): [error, job, Jobs].
fullname(jobname, rotated) ==
    IF PyEq(rotated, PyInt(90)) THEN <<jobname, "90">>
    ELSE IF PyEq(rotated, PyInt(180)) THEN <<jobname, "180">>
    ELSE IF PyEq(rotated, PyInt(270)) THEN <<jobname, "270">>
    ELSE <<jobname>>

Matching(name, J) == {existingjob \in J : lowername(existingjob) = lowername(name)}

findJob(jobname, rotated, J) ==
    LET full == fullname(jobname, rotated)
    IN IF Matching(full, J) # {}
       THEN [error |-> "none", job |-> CHOOSE e \in Matching(full, J) : TRUE,
             Jobs |-> J]
       ELSE IF ~Truthy(rotated)
       THEN [error |-> "RuntimeError", job |-> <<>>, Jobs |-> J]
       ELSE IF Matching(<<jobname>>, J) = {}
       THEN [error |-> "UnboundLocalError", job |-> <<>>, Jobs |-> J]
       ELSE [error |-> "none", job |-> full, Jobs |-> J \cup {full}]

\* Placement.addFromFile from element i on: [error, at, jobs, Jobs].  A
\* coordinate that float rejects reaches "except e:", where the name e is
\* not defined.
RECURSIVE addFromFile(_, _, _, _)
addFromFile(jobs, file, i, J) ==
    IF i > Len(file)
    THEN [error |-> "none", at |-> 0, jobs |-> jobs, Jobs |-> J]
    ELSE LET element == file[i]
         IN IF element.tag # "board" THEN addFromFile(jobs, file, i + 1, J)
            ELSE LET jobname == element.name
                     rotate == IF element.rotate = Absent THEN PyInt(0)
                               ELSE PyStr(element.rotate)
                     xtext == IF element.x = Absent THEN str(0) ELSE element.x
                     ytext == IF element.y = Absent THEN str(0) ELSE element.y
                 IN IF ~IsNumber(xtext) \/ ~IsNumber(ytext)
                    THEN [error |-> "NameError", at |-> i, jobs |-> jobs, Jobs |-> J]
                    ELSE LET addjob == findJob(jobname, rotate, J)
                         IN IF addjob.error # "none"
                            THEN [error |-> addjob.error, at |-> i, jobs |-> jobs,
                                  Jobs |-> J]
                            ELSE addFromFile(
                                   Append(jobs, JobLayout(addjob.job, float(xtext),
                                                          float(ytext))),
                                   file, i + 1, addjob.Jobs)

\* Placement.write(fname): the placement goes to the placement file.
Placement_write ==
    /\ pc = "write"
    /\ disk' = [disk EXCEPT !.place_file = write(Place)]
    /\ saved' = Place
    /\ pc' = "merge"
    /\ UNCHANGED <<searchVars, config, outcome, opts, AutoSearchType,
                   configJobs, Layout, Place>>

\* ------------------------------------------------------------- parselayout.py
\* self.x = None, self.y = None
Unset == 0 - 1

Row(jobs) == [kind |-> "Row", jobs |-> jobs, x |-> Unset, y |-> Unset]
Col(jobs) == [kind |-> "Col", jobs |-> jobs, x |-> Unset, y |-> Unset]

\* The catalog entry of a job name and whether the name is of a job turned
\* by a quarter.
JobOf(name) ==
    config.catalog[CHOOSE i \in 1..Len(config.catalog) : NameOf[i] = lower(name[1])]
Quarter(name) == Len(name) = 2 /\ name[2] \in {"90", "270"}

RECURSIVE width_in(_)
RECURSIVE height_in(_)

\* Panel.addwidths, maxwidths, addheights, maxheights
addwidths(jobs) ==
    SumSeq([i \in 1..Len(jobs) |-> width_in(jobs[i]) + config.xspacing])
        - config.xspacing
maxwidths(jobs) == SetMax({0} \cup {width_in(jobs[i]) : i \in 1..Len(jobs)})
addheights(jobs) ==
    SumSeq([i \in 1..Len(jobs) |-> height_in(jobs[i]) + config.yspacing])
        - config.yspacing
maxheights(jobs) == SetMax({0} \cup {height_in(jobs[i]) : i \in 1..Len(jobs)})

width_in(node) ==
    IF node.kind = "Row" THEN addwidths(node.jobs)
    ELSE IF node.kind = "Col" THEN maxwidths(node.jobs)
    ELSE IF Quarter(node.job) THEN JobOf(node.job).h ELSE JobOf(node.job).w

height_in(node) ==
    IF node.kind = "Row" THEN maxheights(node.jobs)
    ELSE IF node.kind = "Col" THEN addheights(node.jobs)
    ELSE IF Quarter(node.job) THEN JobOf(node.job).w ELSE JobOf(node.job).h

\* Row.setPosition / Col.setPosition / JobLayout.setPosition: the node with
\* the positions set; the children of jobs from index i on, the cursor at
\* (px, py).
RECURSIVE setPosition(_, _, _)
RECURSIVE setChildren(_, _, _, _, _)
setChildren(LR, jobs, i, px, py) ==
    IF i > Len(jobs) THEN <<>>
    ELSE <<setPosition(jobs[i], px, py)>> \o
         (IF LR
          THEN setChildren(LR, jobs, i + 1,
                           px + width_in(jobs[i]) + config.xspacing, py)
          ELSE setChildren(LR, jobs, i + 1,
                           px, py + height_in(jobs[i]) + config.yspacing))

setPosition(node, px, py) ==
    IF node.kind = "JobLayout" THEN [node EXCEPT !.x = px, !.y = py]
    ELSE [node EXCEPT !.x = px, !.y = py,
                      !.jobs = setChildren(node.kind = "Row", node.jobs, 1, px, py)]

\* merge: for row in Layout: row.setPosition(X, Y);
\*        Y += row.height_in() + config.Config['yspacing']
RECURSIVE setRows(_, _, _, _)
setRows(rows, i, X, Y) ==
    IF i > Len(rows) THEN <<>>
    ELSE <<setPosition(rows[i], X, Y)>> \o
         setRows(rows, i + 1, X, Y + height_in(rows[i]) + config.yspacing)

\* The flattening that lists the leaves of the children last to first.
RECURSIVE Panel_canonicalize_reversed(_)
Panel_canonicalize_reversed(node) ==
    IF node.kind = "JobLayout" THEN <<node>>
    ELSE LET n == Len(node.jobs)
             RECURSIVE cat(_)
             cat(i) == IF i = 0 THEN <<>>
                       ELSE Panel_canonicalize_reversed(node.jobs[i]) \o cat(i - 1)
         IN cat(n)

\* Panel.canonicalize: L = L + job.canonicalize() over the children; a
\* JobLayout is its own list.
RECURSIVE Panel_canonicalize(_)
Panel_canonicalize(node) ==
    IF node.kind = "JobLayout" THEN <<node>>
    ELSE LET RECURSIVE cat(_)
             cat(i) == IF i > Len(node.jobs) THEN <<>>
                       ELSE Panel_canonicalize(node.jobs[i]) \o cat(i + 1)
         IN cat(1)

\* canonicalizePanel(panel)
RECURSIVE canonicalizePanel_from(_, _)
canonicalizePanel_from(panel, i) ==
    IF i > Len(panel) THEN <<>>
    ELSE Panel_canonicalize(panel[i]) \o canonicalizePanel_from(panel, i + 1)
canonicalizePanel(panel) == canonicalizePanel_from(panel, 1)

\* parseColSpec / parseRowSpec over an XML element [tag, children]:
\* [error, panel].  A board is passed over; a row inside a column is parsed
\* by parseColSpec.
RECURSIVE parseColSpec(_)
RECURSIVE parseChildren(_, _, _)
parseChildren(spec, i, inner) ==
    IF i > Len(spec.children) THEN [error |-> FALSE, jobs |-> <<>>]
    ELSE LET child == spec.children[i]
         IN IF child.tag = "board" THEN parseChildren(spec, i + 1, inner)
            ELSE IF child.tag # inner THEN [error |-> TRUE, jobs |-> <<>>]
            ELSE LET sub == parseColSpec(child)
                     rest == parseChildren(spec, i + 1, inner)
                 IN IF sub.error \/ rest.error THEN [error |-> TRUE, jobs |-> <<>>]
                    ELSE [error |-> FALSE, jobs |-> <<sub.panel>> \o rest.jobs]

parseColSpec(spec) ==
    LET r == parseChildren(spec, 1, "row")
    IN [error |-> r.error, panel |-> Col(r.jobs)]

parseRowSpec(spec) ==
    LET r == parseChildren(spec, 1, "col")
    IN [error |-> r.error, panel |-> Row(r.jobs)]

\* parseLayoutFile: parseRowSpec of every row element of the root.
RECURSIVE parseRows(_, _)
parseRows(root, i) ==
    IF i > Len(root) THEN [error |-> FALSE, Rows |-> <<>>]
    ELSE IF root[i].tag # "row" THEN parseRows(root, i + 1)
    ELSE LET r == parseRowSpec(root[i])
             rest == parseRows(root, i + 1)
         IN IF r.error \/ rest.error THEN [error |-> TRUE, Rows |-> <<>>]
            ELSE [error |-> FALSE, Rows |-> <<r.panel>> \o rest.Rows]

parseLayoutFile(root) == parseRows(root, 1)

\* ------------------------------------------------------------- merge
\* merge: the search type from --search, FROM_FILE when a placement file is
\* given.
merge_options ==
    /\ pc = "merge"
    /\ AutoSearchType' = IF opts.place_file # "none" THEN "FROM_FILE"
                         ELSE IF opts.search = "random" THEN "RANDOM_SEARCH"
                         ELSE "EXHAUSTIVE_SEARCH"
    /\ pc' = "performing"
    /\ UNCHANGED <<searchVars, config, outcome, opts, configJobs, Layout,
                   Place, disk, saved>>

\* elif config.AutoSearchType == FROM_FILE: Place.addFromFile(...).  open()
\* of the file object that argparse made raises TypeError.
merge_from_file ==
    /\ pc = "performing"
    /\ opts.layoutfile = "none"
    /\ AutoSearchType = "FROM_FILE"
    /\ IF opts.place_file = "file"
       THEN /\ outcome' = "TypeError"
            /\ pc' = "done"
            /\ Place' = <<>>
            /\ configJobs' = configJobs
       ELSE LET r == addFromFile(<<>>, disk.place_file, 1, configJobs)
            IN /\ Place' = r.jobs
               /\ configJobs' = r.Jobs
               /\ outcome' = IF r.error = "none" THEN outcome ELSE r.error
               /\ pc' = IF r.error = "none" THEN "placed_file" ELSE "done"
    /\ UNCHANGED <<searchVars, config, opts, AutoSearchType, Layout, disk, saved>>

\* else: tile = tile_jobs(config.Jobs.values())
merge_auto ==
    /\ pc = "performing"
    /\ opts.layoutfile = "none"
    /\ AutoSearchType # "FROM_FILE"
    /\ pc' = "tile_jobs"
    /\ UNCHANGED <<searchVars, config, outcome, mergeVars>>

\* if opts.layoutfile: parseLayoutFile, setPosition of every row,
\* Place.addFromLayout(Layout), del Layout.  open() of the file object that
\* argparse made raises TypeError, reported as RuntimeError.
merge_layout ==
    /\ pc = "performing"
    /\ opts.layoutfile # "none"
    /\ LET r == parseLayoutFile(disk.layoutfile)
       IN IF opts.layoutfile = "file" \/ r.error
          THEN /\ outcome' = "RuntimeError"
               /\ pc' = "done"
               /\ Place' = Place
          ELSE /\ \E leftmargin, bottommargin \in 0..MaxMargin :
                     Place' = canonicalizePanel(
                                  setRows(r.Rows, 1, Origin + leftmargin,
                                          Origin + bottommargin))
               /\ outcome' = outcome
               /\ pc' = "placed_layout"
    /\ Layout' = <<>>
    /\ UNCHANGED <<searchVars, config, opts, AutoSearchType, configJobs, disk,
                   saved>>

\* for row in Layout: row.setPosition(X, Y); Y += ...  on a layout tree
\* built with Row(), Col() and addjob.
Layout_setPosition ==
    /\ pc = "layout"
    /\ \E leftmargin, bottommargin \in 0..MaxMargin :
          Layout' = setRows(Layout, 1, Origin + leftmargin, Origin + bottommargin)
    /\ pc' = "positioned"
    /\ UNCHANGED <<searchVars, config, outcome, opts, AutoSearchType,
                   configJobs, Place, disk, saved>>

\* Placement.addFromLayout(Layout), called once and once again.
Placement_addFromLayout ==
    /\ pc \in {"positioned", "added"}
    /\ Place' = Place \o canonicalizePanel(Layout)
    /\ pc' = IF pc = "positioned" THEN "added" ELSE "added_twice"
    /\ UNCHANGED <<searchVars, config, outcome, opts, AutoSearchType,
                   configJobs, Layout, disk, saved>>

\* Place.addFromTiling(tile, OriginX + leftmargin, OriginY + bottommargin);
\* a tile of None has no canonicalize.
Placement_addFromTiling ==
    /\ pc = "done"
    /\ outcome = "returned"
    /\ IF tile = None
       THEN /\ outcome' = "AttributeError"
            /\ UNCHANGED <<Place, pc>>
       ELSE /\ \E leftmargin, bottommargin \in 0..MaxMargin :
                  Place' = Place \o Tiling_canonicalize(tile[1], Origin + leftmargin,
                                                        Origin + bottommargin)
            /\ pc' = "placed_tiling"
            /\ outcome' = outcome
    /\ UNCHANGED <<searchVars, config, opts, AutoSearchType, configJobs, Layout,
                   disk, saved>>

\* The steps of the program.
Step ==
    \/ tile_jobs_call
    \/ TileSearch_init
    \/ tile_search1_search
    \/ RandomSearch_enter
    \/ \E order \in Perms(N) : RandomSearch_trial(order)
    \/ \E coin \in {0, 1}, n \in 1..4 : RandomSearch_place(coin, n)
    \/ RandomSearch_tail
    \/ ExhaustiveSearch_base
    \/ ExhaustiveSearch_enter
    \/ ExhaustiveSearch_recurse
    \/ ExhaustiveSearch_next
    \/ ExhaustiveSearch_stats
    \/ tilesearch1_tail
    \/ run_score
    \/ RandomSearch_count
    \/ handler
    \/ wrapper_return
    \/ tile_jobs_return
    \/ Placement_addFromTiling

\* The whole search within one reading of the clock.
Next == Step \/ KeyboardInterrupt

Spec == Init /\ [][Next]_vars

\* The search while the clock runs.
InitTimed ==
    /\ config \in TimedConfigs
    /\ L = <<>>
    /\ x = Unbound
    /\ currentTiling = None
    /\ joborder = <<>>
    /\ pfx = 0
    /\ stack = <<>>
    /\ newTiling = None
    /\ pc = "tile_jobs"
    /\ now = Epoch
    /\ intr = "none"
    /\ outcome = "running"
    /\ tile = None
    /\ hist = NoHist
    /\ AutoLayout

NextTimed == Step \/ KeyboardInterrupt \/ Tick

TimedSpec == InitTimed /\ [][NextTimed]_vars

\* The search while the clock runs, the program keeps taking steps and the
\* clock keeps advancing.
LiveSpec == TimedSpec /\ WF_vars(Step) /\ WF_vars(Tick)

\* ------------------------------------------------------------- merge inputs
SeqsUpTo(S, n) == UNION {[1..k -> S] : k \in 0..n}

\* Two jobs, a upright and b lying.
MergeCatalog ==
    <<[w |-> 1, h |-> 2, Repeat |-> 1], [w |-> 2, h |-> 1, Repeat |-> 1]>>

MergeConfigs ==
    {c \in AllConfigs :
        /\ c.catalog = MergeCatalog
        /\ c.PX = MaxPanel /\ c.PY = MaxPanel
        /\ c.RandomSearchExhaustiveJobs = 0
        /\ c.SearchTimeout = 0 /\ c.syncPeriod = 30
        /\ c.engine # "tile_search2"}

AllOpts == [place_file : {"none", "path", "file"},
            layoutfile : {"none", "path", "file"},
            search : {"random", "exhaustive"}]

\* Placements to save: records of catalog jobs, rotated ones included.
SavedNames == {<<"a">>, <<"b">>, <<"a", "90">>, <<"b", "90">>}
Placements ==
    SeqsUpTo({JobLayout(n, px, py) : n \in SavedNames, px, py \in 0..MaxCoord},
             MaxRecords)

\* Placement files as found on disk: known and unknown names, with and
\* without rotate, coordinates that are numbers or not, other elements.
RawElements ==
    [tag : {"board"}, name : {"a", "A", "zz"}, rotate : {Absent, "90"},
     x : {"0", "1", "abc"}, y : {"0", "abc"}]
    \cup {[tag |-> "comment", name |-> "a", rotate |-> Absent, x |-> "0", y |-> "0"]}
RawFiles == SeqsUpTo(RawElements, MaxRecords)

\* Layout files: elements nested three deep.
Elements0 == {[tag |-> t, children |-> <<>>] : t \in {"board", "text"}}
Elements1 ==
    Elements0 \cup {[tag |-> t, children |-> ch] :
                       t \in {"row", "col"}, ch \in SeqsUpTo(Elements0, MaxChildren)}
Elements2 ==
    Elements0 \cup {[tag |-> t, children |-> ch] :
                       t \in {"row", "col"}, ch \in SeqsUpTo(Elements1, MaxChildren)}
LayoutFiles ==
    {<<e>> : e \in Elements2} \cup {<<e, f>> : e, f \in Elements1}

\* Layout trees built with Row(), Col(), addjob: rows of jobs and columns,
\* columns of jobs and rows, rows of jobs.
Leaves == {JobLayout(n, Unset, Unset) : n \in {<<"a">>, <<"b">>}}
Rows2 == {Row(ch) : ch \in SeqsUpTo({JobLayout(<<"a">>, Unset, Unset)}, MaxChildren)}
Cols1 == {Col(ch) : ch \in SeqsUpTo(Leaves \cup Rows2, MaxChildren)}
Rows0 == {Row(ch) : ch \in SeqsUpTo(Leaves \cup Cols1, MaxChildren)}
Layouts == {<<r>> : r \in Rows0} \cup {<<r, q>> : r, q \in Rows2}

\* merge and the placement and layout classes: a placement about to be
\* written and read back, merge about to run on files, or a layout tree
\* about to be positioned.
InitMerge ==
    /\ L = <<>>
    /\ x = Unbound
    /\ currentTiling = None
    /\ joborder = <<>>
    /\ pfx = 0
    /\ stack = <<>>
    /\ newTiling = None
    /\ now = Epoch
    /\ intr = "none"
    /\ outcome = "running"
    /\ tile = None
    /\ hist = NoHist
    /\ config \in MergeConfigs
    /\ opts \in AllOpts
    /\ (config.engine = "tilesearch2") <=> (opts.search = "random")
    /\ AutoSearchType = "RANDOM_SEARCH"
    /\ saved = <<>>
    /\ \/ /\ pc = "write"
          /\ opts.place_file = "path" /\ opts.layoutfile = "none"
          /\ opts.search = "random"
          /\ config.xspacing = 0 /\ config.yspacing = 0
          /\ configJobs \in {CatalogNames(config.catalog),
                             CatalogNames(config.catalog) \cup {<<"a", "90">>}}
          /\ Place \in Placements
          /\ Layout = <<>>
          /\ disk = NoFiles
       \/ /\ pc = "merge"
          /\ (opts.place_file # "none" \/ opts.layoutfile # "none")
                => opts.search = "random"
          /\ opts.layoutfile # "path"
                => (config.xspacing = 0 /\ config.yspacing = 0)
          /\ configJobs \in {CatalogNames(config.catalog)} \cup
                 IF opts.layoutfile = "none" /\ opts.place_file = "path"
                 THEN {CatalogNames(config.catalog) \cup {<<"a", "90">>}}
                 ELSE {}
          /\ Place = <<>>
          /\ Layout = <<>>
          /\ disk \in [place_file :
                          IF opts.place_file = "none" THEN {<<>>}
                          ELSE IF opts.layoutfile = "none" THEN RawFiles
                          ELSE {write(<<JobLayout(<<"a">>, 0, 0)>>)},
                       layoutfile :
                          IF opts.layoutfile = "none" THEN {<<>>}
                          ELSE LayoutFiles]
       \/ /\ pc = "layout"
          /\ opts.place_file = "none" /\ opts.layoutfile = "none"
          /\ opts.search = "random"
          /\ configJobs = CatalogNames(config.catalog)
          /\ Place = <<>>
          /\ Layout \in Layouts
          /\ disk = NoFiles

NextMerge ==
    \/ Placement_write
    \/ merge_options
    \/ merge_layout
    \/ merge_from_file
    \/ merge_auto
    \/ Layout_setPosition
    \/ Placement_addFromLayout

MergeSpec == InitMerge /\ [][NextMerge]_vars

\* ------------------------------------------------------------- properties
\* Every tiling the state holds: the partial tilings of the search, the
\* trial's tiling, the best one and the one handed back.
AllTilings ==
    {stack[i].TSoFar : i \in 1..Len(stack)}
    \cup {t[1] : t \in {currentTiling, x.bestTiling, newTiling, tile,
                        hist.completed} \ {None}}

\* The rectangle is the job's, or the rotated job's, size plus the spacing.
SizedAsJob(r) ==
    LET j == config.catalog[r.job]
    IN IF r.rot
       THEN r.w = j.h + config.xspacing /\ r.h = j.w + config.yspacing
       ELSE r.w = j.w + config.xspacing /\ r.h = j.h + config.yspacing

InPanel(T, r) ==
    /\ 0 <= r.x /\ r.x + r.w <= T.W
    /\ 0 <= r.y /\ r.y + r.h <= T.H

ValidTiling(T) ==
    /\ \A i \in 1..Len(T.rects) : InPanel(T, T.rects[i]) /\ SizedAsJob(T.rects[i])
    /\ \A i, j \in 1..Len(T.rects) : i < j => ~Overlap(T.rects[i], T.rects[j])

\* C1: in every tiling the search builds, partial or completed, no two placed
\* rectangles overlap, every rectangle lies within the panel, and each is
\* sized as its job (rotated or not) plus the spacing.
C1_NoOverlapInPanel == \A T \in AllTilings : ValidTiling(T)

\* C1 witness: the best tiling of an exhaustive search holds three
\* rectangles, one of them a rotated job, under a non-zero spacing.
C1_Witness ==
    /\ config.engine = "tile_search1"
    /\ config.xspacing + config.yspacing > 0
    /\ x.bestTiling # None
    /\ Len(x.bestTiling[1].rects) = 3
    /\ \E i \in 1..3 : x.bestTiling[1].rects[i].rot

\* The smallest area of a complete placement of Jobs onto T over every job
\* order, every orientation and every valid add-point; Inf when there is none.
RECURSIVE MinArea(_, _)
MinArea(Jobs, T) ==
    IF Jobs = <<>> THEN area(T)
    ELSE SetMin({Inf} \cup UNION {
           LET e == Jobs[i]
               rest == RemoveAt(Jobs, i)
               u == UnrotSize(e)
               r == RotSize(e)
               pu == {p \in T.pts : Fits(T, p, u[1], u[2])}
               pr == {p \in T.pts : Fits(T, p, r[1], r[2])}
           IN {MinArea(rest, addJob(T, p, u[1], u[2], e.job, FALSE)) : p \in pu}
              \cup {MinArea(rest, addJob(T, p, r[1], r[2], e.job, TRUE)) : p \in pr}
           : i \in 1..Len(Jobs)})

BruteForce ==
    MinArea(L, Tiling(config.PX, config.PY, config.xspacing, config.yspacing))

\* Two 1 x 1 jobs on a 2 x 1 panel without spacing.
TwoUnitJobs ==
    /\ L = <<[Xdim |-> 1, Ydim |-> 1, job |-> 1], [Xdim |-> 1, Ydim |-> 1, job |-> 1]>>
    /\ config.PX = 2 /\ config.PY = 1
    /\ config.xspacing = 0 /\ config.yspacing = 0

\* C2: an uninterrupted exhaustive search from the empty tiling ends with
\* bestScore equal to the brute-force minimum area over all complete
\* placements; two 1 x 1 jobs on a 2 x 1 panel give area 2 and utilization
\* 100%.
C2_ExhaustiveOptimum ==
    (pc = "done" /\ config.engine = "tile_search1" /\ intr = "none") =>
        /\ x.bestScore = BruteForce
        /\ TwoUnitJobs =>
              /\ x.bestScore = 2
              /\ usedArea(x.bestTiling[1]) * 100 = 100 * area(x.bestTiling[1])

\* C2 witness: an uninterrupted exhaustive search of three jobs has ended on
\* a tiling that needs a rotated job and leaves part of the panel unused.
C2_Witness ==
    /\ pc = "done" /\ config.engine = "tile_search1" /\ intr = "none"
    /\ N = 3
    /\ x.bestTiling # None
    /\ x.bestScore < config.PX * config.PY
    /\ \E i \in 1..3 : x.bestTiling[1].rects[i].rot

\* C2 witness of the example: two 1 x 1 jobs, panel 2 x 1, area 2.
C2_WitnessExample ==
    /\ pc = "done" /\ config.engine = "tile_search1" /\ intr = "none"
    /\ TwoUnitJobs
    /\ x.bestScore = 2

\* A completed tiling is being compared with the best so far: the base case
\* of ExhaustiveSearch, or the scoring of the tail's tiling in run.
Scored ==
    IF pc = "es" /\ Top.phase = "call" /\ Top.Jobs = <<>> /\ pc' # "handler"
    THEN Some(Top.TSoFar)
    ELSE IF pc = "score" /\ newTiling # None /\ pc' = "count"
    THEN newTiling
    ELSE None

StrictlyBetter(T) ==
    \/ area(T) < x.bestScore
    \/ /\ area(T) = x.bestScore
       /\ corners(T) < corners(x.bestTiling[1])

\* C3: a completed tiling replaces the best so far exactly when its area is
\* strictly smaller, or its area is equal and it has strictly fewer corners;
\* otherwise (ties in both included) the earlier best tiling and score stay.
\* The rule is the same in exhaustive search and in both random engines.
C3_ReplaceIffStrictlyBetter ==
    [][Scored # None =>
         IF StrictlyBetter(Scored[1])
         THEN x'.bestTiling = Scored /\ x'.bestScore = area(Scored[1])
         ELSE x'.bestTiling = x.bestTiling /\ x'.bestScore = x.bestScore]_vars

\* C3 witness: a completed tiling tied with the best so far in area and in
\* corners has been compared, and the earlier, different tiling was kept.
C3_Witness ==
    /\ hist.verdict = "tie"
    /\ x.bestTiling # None
    /\ hist.completed # x.bestTiling
    /\ area(hist.completed[1]) = x.bestScore
    /\ corners(hist.completed[1]) = corners(x.bestTiling[1])

\* C3 witness: a tiling of equal area and fewer corners replaced the best.
C3_WitnessCorners ==
    /\ hist.verdict = "corners"
    /\ hist.completed = x.bestTiling

\* C4: in random search, for every tail size K >= 0, after a trial that
\* placed all N jobs the completed tiling has been scored: bestTiling is not
\* None and bestScore is at most that tiling's area.
C4_CompletedTrialScored ==
    (config.engine # "tile_search1" /\ pc = "count" /\ hist.completed # None) =>
        /\ x.bestTiling # None
        /\ x.bestScore <= area(hist.completed[1])

\* C4 restricted to tails of at least one job.
C4_ScoredWithTail ==
    config.RandomSearchExhaustiveJobs > 0 => C4_CompletedTrialScored

Raised == {"AttributeError", "UnboundLocalError"}

\* C5: after an interrupt (external or timeout) that arrived once the
\* TileSearch object was bound, the wrapper returns normally: no exception
\* escapes it and it hands back the best tiling, which is None or complete.
C5_InterruptReturnsBest ==
    (intr # "none" /\ x.bound /\ pc \in {"result", "done"}) =>
        /\ outcome \notin Raised
        /\ tile = x.bestTiling
        /\ tile # None => Len(tile[1].rects) = N

\* C5 for the engines of tilesearch.py alone.
C5_TilesearchOnly ==
    config.engine # "tilesearch2" => C5_InterruptReturnsBest

\* C6: random search interrupted before any trial was counted (during the
\* construction of TileSearch included) returns None and does not raise.
C6_EarlyInterruptReturnsNone ==
    (/\ config.engine # "tile_search1"
     /\ intr = "external"
     /\ x.placements = 0
     /\ pc \in {"result", "done"}) =>
        /\ outcome \notin Raised
        /\ tile = None

\* C6 without the requirement on the returned value: nothing is raised.
C6_NothingRaised ==
    (/\ config.engine # "tile_search1"
     /\ intr = "external"
     /\ x.placements = 0
     /\ pc \in {"result", "done"}) =>
        outcome \notin Raised

\* C7: when no complete placement of the jobs exists, an uninterrupted
\* exhaustive search ends with bestTiling None and bestScore infinite, the
\* wrapper returns None and tile_jobs reports that the panel is too small;
\* it reports so in no other uninterrupted run.
C7_InfeasibleReported ==
    (config.engine = "tile_search1" /\ intr = "none" /\ pc \in {"result", "done"}) =>
        /\ BruteForce = Inf =>
              /\ x.bestTiling = None /\ x.bestScore = Inf
              /\ tile = None
              /\ pc = "done" => outcome = "PanelTooSmall"
        /\ BruteForce < Inf => outcome # "PanelTooSmall"

\* C7 witness: three jobs that do not fit the panel, reported as such.
C7_Witness ==
    /\ config.engine = "tile_search1" /\ intr = "none" /\ pc = "done"
    /\ N = 3
    /\ BruteForce = Inf
    /\ x.bestTiling = None
    /\ outcome = "PanelTooSmall"

RandomEngine == config.engine # "tile_search1"

\* C8: with SearchTimeout > 0 and the clock advancing, a random search that
\* has started its trials eventually stops and its wrapper returns
\* bestTiling.
C8_TimeoutStopsSearch ==
    (RandomEngine /\ config.SearchTimeout > 0 /\ pc = "trial")
        ~> (pc = "result" /\ tile = x.bestTiling)

\* C8 for the random search of tilesearch.py alone.
C8_TilesearchOnly ==
    (config.engine = "tile_search2" /\ config.SearchTimeout > 0 /\ pc = "trial")
        ~> (pc = "result" /\ tile = x.bestTiling)

\* C8, safety half: the timeout interrupt of a random search is raised only
\* once the elapsed time exceeds SearchTimeout.
C8_RaisedAfterTimeout ==
    (RandomEngine /\ intr = "timeout") =>
        now - x.startTime > config.SearchTimeout

Stopped == pc \in {"handler", "stats", "result", "done"}

\* C9: the timeout interrupt is raised only where SearchTimeout > 0 and
\* now - startTime > SearchTimeout; with SearchTimeout = 0 it is never
\* raised, and RandomSearch stops only through an external interrupt.
C9_TimeoutOnlyWhenConfigured ==
    /\ intr = "timeout" =>
          /\ config.SearchTimeout > 0
          /\ now - x.startTime > config.SearchTimeout
    /\ (config.engine = "tile_search2" /\ config.SearchTimeout = 0 /\ Stopped) =>
          intr = "external"

\* C9 witness: a random search without timeout, stopped by an external
\* interrupt after the clock went past what any timeout would have allowed.
C9_Witness ==
    /\ config.engine = "tile_search2"
    /\ config.SearchTimeout = 0
    /\ pc = "done"
    /\ intr = "external"
    /\ now - x.startTime > MaxTimeout
    /\ x.placements > 0

\* C9 witness: the timeout was raised, with SearchTimeout > 0.
C9_WitnessRaised ==
    /\ intr = "timeout"
    /\ config.SearchTimeout > 0
    /\ pc = "done"

\* The tilings that count as completed.
CompletedTilings ==
    {t[1] : t \in {x.bestTiling, newTiling, tile, hist.completed} \ {None}}

\* C10: a completed tiling places every entry of the job list exactly once,
\* unrotated or rotated: it has N rectangles, and a job of repeat count r
\* has exactly r of them.
C10_EachJobOnce ==
    \A T \in CompletedTilings :
        /\ Len(T.rects) = N
        /\ \A j \in 1..Len(config.catalog) :
              Cardinality({i \in 1..Len(T.rects) : T.rects[i].job = j})
                  = config.catalog[j].Repeat

\* C10 witness: the best tiling holds a job of repeat count 2 once rotated
\* and once unrotated, next to another job.
C10_Witness ==
    /\ x.bestTiling # None
    /\ Len(config.catalog) = 2
    /\ \E j \in 1..2 :
          /\ config.catalog[j].Repeat = 2
          /\ \E a, b \in 1..Len(x.bestTiling[1].rects) :
                /\ x.bestTiling[1].rects[a].job = j
                /\ x.bestTiling[1].rects[b].job = j
                /\ x.bestTiling[1].rects[a].rot
                /\ ~x.bestTiling[1].rects[b].rot

\* The padded size fits an empty panel.
FitsPanel(sz) == sz[1] <= config.PX /\ sz[2] <= config.PY

\* The job entry fits the panel in its rotated orientation only.
RotatedOnly(e) == ~FitsPanel(UnrotSize(e)) /\ FitsPanel(RotSize(e))

\* C11: when a job fits the panel only rotated, an uninterrupted exhaustive
\* search of that single job returns a tiling, not None, and in every tiling
\* the search returns each such job is placed as its rotated counterpart,
\* width and height swapped.
C11_RotatedOnlyPlaced ==
    (config.engine = "tile_search1" /\ intr = "none" /\ pc \in {"result", "done"}) =>
        /\ (N = 1 /\ RotatedOnly(L[1])) => tile # None
        /\ tile # None =>
              \A i \in 1..Len(tile[1].rects) :
                  LET r == tile[1].rects[i]
                      j == config.catalog[r.job]
                      e == [Xdim |-> j.w, Ydim |-> j.h, job |-> r.job]
                  IN RotatedOnly(e) =>
                        /\ r.rot
                        /\ r.w = j.h + config.xspacing
                        /\ r.h = j.w + config.yspacing

\* C11 witness: one 2 x 1 job on a 1 x 2 panel without spacing, returned
\* rotated as a 1 x 2 rectangle.
C11_Witness ==
    /\ config.engine = "tile_search1" /\ intr = "none" /\ pc = "done"
    /\ N = 1 /\ L[1].Xdim = 2 /\ L[1].Ydim = 1
    /\ config.PX = 1 /\ config.PY = 2
    /\ config.xspacing = 0 /\ config.yspacing = 0
    /\ outcome = "returned"
    /\ tile # None
    /\ tile[1].rects[1].rot
    /\ tile[1].rects[1].w = 1 /\ tile[1].rects[1].h = 2

\* The smallest area ExhaustiveSearch reaches from TSoFar with the jobs Jobs,
\* computed as the search recurses, with the removeInlets call made
\* (inlets) or left out; Inf when it completes no tiling.
RECURSIVE ExhaustiveScore(_, _, _)
ExhaustiveScore(Jobs, TSoFar, inlets) ==
    IF Jobs = <<>> THEN area(TSoFar)
    ELSE LET T0 == IF inlets THEN removeInlets(TSoFar, minInletSize(Jobs))
                   ELSE TSoFar
         IN SetMin({Inf} \cup UNION {
              LET e == Jobs[i]
                  rest == remaining_jobs(Jobs, i)
                  a1 == addpoints1(T0, e)
                  a2 == addpoints2(T0, e)
              IN {ExhaustiveScore(rest,
                      addJob(clone(T0), a1[k], UnrotSize(e)[1], UnrotSize(e)[2],
                             e.job, FALSE), inlets) : k \in 1..Len(a1)}
                 \cup
                 {ExhaustiveScore(rest,
                      addJob(clone(T0), a2[k], RotSize(e)[1], RotSize(e)[2],
                             e.job, TRUE), inlets) : k \in 1..Len(a2)}
              : i \in 1..Len(Jobs)})

EmptyPanel == Tiling(config.PX, config.PY, config.xspacing, config.yspacing)

\* C12: on the same input, an uninterrupted ExhaustiveSearch ends with the
\* bestScore that the search without its removeInlets call reaches, and with
\* the same feasible / infeasible verdict; the two searches agree as
\* functions of the input too.
C12_InletsKeepScore ==
    (config.engine = "tile_search1" /\ intr = "none" /\ pc \in {"result", "done"}) =>
        /\ x.bestScore = ExhaustiveScore(L, EmptyPanel, FALSE)
        /\ ExhaustiveScore(L, EmptyPanel, TRUE) = ExhaustiveScore(L, EmptyPanel, FALSE)
        /\ (x.bestTiling = None) <=> (ExhaustiveScore(L, EmptyPanel, FALSE) = Inf)

\* The tiling with the rectangles of T added in the same order and no
\* anchor ever dropped by removeInlets.
RECURSIVE Replay(_, _)
Replay(rects, n) ==
    IF n = 0 THEN EmptyPanel
    ELSE LET r == rects[n]
         IN addJob(Replay(rects, n - 1), <<r.x, r.y>>, r.w, r.h, r.job, r.rot)

\* C12 witness: an uninterrupted search of three jobs has ended on a best
\* tiling along whose branch removeInlets dropped an anchor.
C12_Witness ==
    /\ config.engine = "tile_search1" /\ intr = "none" /\ pc = "done"
    /\ N = 3
    /\ x.bestTiling # None
    /\ x.bestTiling[1].pts # Replay(x.bestTiling[1].rects, 3).pts
    /\ x.bestScore = ExhaustiveScore(L, EmptyPanel, FALSE)

\* C12 witness: removeInlets is about to drop an anchor of a partial tiling.
C12_WitnessInlet ==
    /\ config.engine = "tile_search1" /\ pc = "es"
    /\ Top.phase = "call" /\ Top.Jobs # <<>>
    /\ removeInlets(Top.TSoFar, minInletSize(Top.Jobs)).pts # Top.TSoFar.pts
    /\ \E p \in Top.TSoFar.pts : Fits(Top.TSoFar, p, 1, 1)

\* C13: a placement of catalog jobs, rotated jobs included, written by
\* Placement.write and read back by addFromFile on a fresh Placement gives
\* the same records: same job, x, y and rotation, in the same order.
C13_WriteReadRoundTrip ==
    (saved # <<>> /\ pc \in {"placed_file", "done"}) =>
        /\ pc = "placed_file"
        /\ Place = saved

\* C13 for placements without rotated jobs.
C13_UnrotatedRoundTrip ==
    (/\ saved # <<>>
     /\ pc \in {"placed_file", "done"}
     /\ \A i \in 1..Len(saved) : Len(saved[i].job) = 1) =>
        /\ pc = "placed_file"
        /\ Place = saved

\* The board records of a placement file that addFromFile must reject: the
\* job name is not in the catalog, or x or y is not a number.
BadRecord(element) ==
    /\ element.tag = "board"
    /\ \/ Matching(<<element.name>>, configJobs) = {}
       \/ ~IsNumber(element.x)
       \/ ~IsNumber(element.y)

BadRecords == {i \in 1..Len(disk.place_file) : BadRecord(disk.place_file[i])}

ReadFromFile ==
    /\ saved = <<>>
    /\ opts.place_file = "path" /\ opts.layoutfile = "none"
    /\ pc \in {"placed_file", "done"}

\* C14: addFromFile on a file with a board record of unknown job name (with
\* or without rotate) or of non-numeric x or y fails with a RuntimeError,
\* and no record is appended for the offending element nor for a later one.
C14_BadRecordRuntimeError ==
    (ReadFromFile /\ BadRecords # {}) =>
        /\ pc = "done"
        /\ outcome = "RuntimeError"
        /\ Len(Place) < SetMin(BadRecords)

\* C14 without the kind of the error: the read fails and appends nothing
\* for the offending record.
C14_BadRecordFails ==
    (ReadFromFile /\ BadRecords # {}) =>
        /\ pc = "done"
        /\ outcome # "running"
        /\ Len(Place) < SetMin(BadRecords)

\* C14 for an unknown job name without rotate, coordinates numeric.
C14_UnknownNameNoRotate ==
    (/\ ReadFromFile
     /\ BadRecords # {}
     /\ LET e == disk.place_file[SetMin(BadRecords)]
        IN e.rotate = Absent /\ IsNumber(e.x) /\ IsNumber(e.y)) =>
        /\ pc = "done"
        /\ outcome = "RuntimeError"

\* The panels and jobs of a layout: every node of every tree.
RECURSIVE NodesOf(_)
NodesOf(node) ==
    {node} \cup
    (IF node.kind = "JobLayout" THEN {}
     ELSE UNION {NodesOf(node.jobs[i]) : i \in 1..Len(node.jobs)})

LayoutNodes == UNION {NodesOf(Layout[i]) : i \in 1..Len(Layout)}

\* Spacing between k children.
Between(k, spacing) == IF k = 0 THEN 0 ELSE (k - 1) * spacing

Inside(c, n) ==
    /\ n.x <= c.x /\ c.x + width_in(c) <= n.x + width_in(n)
    /\ n.y <= c.y /\ c.y + height_in(c) <= n.y + height_in(n)

RowLaidOut(n) ==
    LET k == Len(n.jobs)
    IN /\ \A i \in 1..k :
             /\ n.jobs[i].x = n.x + SumSeq([j \in 1..(i - 1) |->
                                   width_in(n.jobs[j]) + config.xspacing])
             /\ n.jobs[i].y = n.y
             /\ Inside(n.jobs[i], n)
       /\ width_in(n) = SumSeq([j \in 1..k |-> width_in(n.jobs[j])])
                           + Between(k, config.xspacing)
       /\ height_in(n) = SetMax({0} \cup {height_in(n.jobs[j]) : j \in 1..k})

ColLaidOut(n) ==
    LET k == Len(n.jobs)
    IN /\ \A i \in 1..k :
             /\ n.jobs[i].x = n.x
             /\ n.jobs[i].y = n.y + SumSeq([j \in 1..(i - 1) |->
                                   height_in(n.jobs[j]) + config.yspacing])
             /\ Inside(n.jobs[i], n)
       /\ height_in(n) = SumSeq([j \in 1..k |-> height_in(n.jobs[j])])
                            + Between(k, config.yspacing)
       /\ width_in(n) = SetMax({0} \cup {width_in(n.jobs[j]) : j \in 1..k})

LeavesApart ==
    LET leaves == canonicalizePanel(Layout)
    IN \A i, j \in 1..Len(leaves) :
          i < j =>
             ~Overlap([x |-> leaves[i].x, y |-> leaves[i].y,
                       w |-> width_in(leaves[i]), h |-> height_in(leaves[i])],
                      [x |-> leaves[j].x, y |-> leaves[j].y,
                       w |-> width_in(leaves[j]), h |-> height_in(leaves[j])])

Positioned == pc \in {"positioned", "added", "added_twice"}

\* C15: in a positioned layout tree every Row has its children side by side
\* from its own position, each after the widths and spacings of the earlier
\* ones, its width the sum of the child widths plus the spacing between
\* them and its height the largest child height; every Col the same upwards;
\* no two leaf jobs overlap and every child lies inside its parent's box.
C15_RowColLayout ==
    Positioned =>
        /\ \A n \in LayoutNodes :
              /\ n.kind = "Row" => RowLaidOut(n)
              /\ n.kind = "Col" => ColLaidOut(n)
        /\ LeavesApart

\* C15 for the trees in which every panel has at least one child.
C15_PanelsWithChildren ==
    (\A n \in LayoutNodes : n.kind # "JobLayout" => n.jobs # <<>>)
        => C15_RowColLayout

\* C15, the parts about positions and boxes, for every tree: each child is
\* at the position the claim gives and inside its parent's box.
C15_PositionsAndBoxes ==
    Positioned =>
        \A n \in LayoutNodes :
            n.kind # "JobLayout" =>
                \A i \in 1..Len(n.jobs) :
                    /\ Inside(n.jobs[i], n)
                    /\ IF n.kind = "Row"
                       THEN /\ n.jobs[i].y = n.y
                            /\ n.jobs[i].x = n.x + SumSeq([j \in 1..(i - 1) |->
                                                  width_in(n.jobs[j]) + config.xspacing])
                       ELSE /\ n.jobs[i].x = n.x
                            /\ n.jobs[i].y = n.y + SumSeq([j \in 1..(i - 1) |->
                                                  height_in(n.jobs[j]) + config.yspacing])

\* C15, the part about the leaves alone: no two leaf jobs overlap.
C15_LeavesApart == Positioned => LeavesApart

\* C16: when a placement file is given to merge, no automatic search is
\* started and the layout file, given or not, is not used: the placement is
\* what addFromFile reads from the placement file.
C16_PlaceFileBypassesLayout ==
    (opts.place_file # "none"
        /\ pc \in {"tile_jobs", "placed_layout", "placed_file", "done"}) =>
        /\ pc \in {"placed_file", "done"}
        /\ pc = "placed_file" =>
              Place = addFromFile(<<>>, disk.place_file, 1, configJobs).jobs
        /\ pc = "done" =>
              \/ opts.place_file = "file" /\ outcome = "TypeError"
              \/ outcome = addFromFile(<<>>, disk.place_file, 1, configJobs).error

\* C16 when no layout file is given.
C16_WithoutLayoutFile == opts.layoutfile = "none" => C16_PlaceFileBypassesLayout

\* C16, the part about the search: with a placement file no automatic
\* search is started.
C16_NoSearch == opts.place_file # "none" => pc # "tile_jobs"

\* C17: tile_jobs expands a job of repeat count r into r entries of the
\* job's geometry and identity, so the list has as many entries as the
\* repeat counts add up to, ordered from the largest maximum dimension to
\* the smallest.
C17_RepeatExpansion ==
    pc # "tile_jobs" =>
        /\ Len(L) = SumSeq([j \in 1..Len(config.catalog) |-> config.catalog[j].Repeat])
        /\ \A j \in 1..Len(config.catalog) :
              /\ Cardinality({i \in 1..Len(L) : L[i].job = j}) = config.catalog[j].Repeat
              /\ \A i \in 1..Len(L) :
                    L[i].job = j => /\ L[i].Xdim = config.catalog[j].w
                                    /\ L[i].Ydim = config.catalog[j].h
        /\ \A i, k \in 1..Len(L) :
              i < k => Max2(L[i].Xdim, L[i].Ydim) >= Max2(L[k].Xdim, L[k].Ydim)

\* C17 witness: a small job of repeat count 2 listed before a larger job of
\* repeat count 1 gives three entries, the larger job first.
C17_Witness ==
    /\ pc = "construct"
    /\ Len(config.catalog) = 2
    /\ config.catalog[1].Repeat = 2 /\ config.catalog[2].Repeat = 1
    /\ Max2(config.catalog[1].w, config.catalog[1].h)
          < Max2(config.catalog[2].w, config.catalog[2].h)
    /\ Len(L) = 3
    /\ L[1].job = 2 /\ L[2].job = 1 /\ L[3].job = 1

\* The leaves of a layout by their paths: the child indices from the list of
\* rows down to the leaf, in lexicographic order.
RECURSIVE LeafPaths(_)
LeafPaths(node) ==
    IF node.kind = "JobLayout" THEN {<<>>}
    ELSE UNION {{<<i>> \o q : q \in LeafPaths(node.jobs[i])} : i \in 1..Len(node.jobs)}

RECURSIVE LeafAt(_, _)
LeafAt(node, path) ==
    IF path = <<>> THEN node ELSE LeafAt(node.jobs[path[1]], Tail(path))

PathLess(a, b) ==
    \E k \in 1..Min2(Len(a), Len(b)) :
        /\ a[k] < b[k]
        /\ \A j \in 1..(k - 1) : a[j] = b[j]

RECURSIVE InPathOrder(_, _)
InPathOrder(root, paths) ==
    IF paths = {} THEN <<>>
    ELSE LET first == CHOOSE a \in paths : \A b \in paths \ {a} : PathLess(a, b)
         IN <<LeafAt(root, first)>> \o InPathOrder(root, paths \ {first})

DepthFirstLeaves(panel) ==
    LET root == [kind |-> "Row", jobs |-> panel, x |-> Unset, y |-> Unset]
    IN InPathOrder(root, LeafPaths(root))

C18_TilingCanonicalize ==
    pc = "placed_tiling" =>
        /\ tile = x.bestTiling
        /\ Len(Place) = Len(tile[1].rects)
        /\ \A i \in 1..Len(Place) :
              /\ Place[i].x - tile[1].rects[i].x = Place[1].x - tile[1].rects[1].x
              /\ Place[i].y - tile[1].rects[i].y = Place[1].y - tile[1].rects[1].y
              /\ Place[i].job[1] = NameOf[tile[1].rects[i].job]
              /\ (Len(Place[i].job) = 2) <=> tile[1].rects[i].rot

\* A job that fits nowhere on T, unrotated or rotated.
NoAddPoint(T, e) == addpoints1(T, e) = <<>> /\ addpoints2(T, e) = <<>>

InJobLoop == pc = "es" /\ stack # <<>> /\ Top.phase \in {"unrot", "rot"}

\* C20: at a node of ExhaustiveSearch where the job loop has come to a job
\* without a valid add-point in either orientation, the branch is pruned:
\* from then on no job is placed from that node and no recursive call is
\* made below it.
C20_DeadJobPrunesNode ==
    [][(InJobLoop /\ \E j \in 1..Top.job_ix : NoAddPoint(Top.TSoFar, Top.Jobs[j]))
          => Len(stack') <= Len(stack)]_vars

\* C20, the part that holds: the job without an add-point is itself not
\* placed at that node.
C20_DeadJobNotPlaced ==
    [][(InJobLoop /\ NoAddPoint(Top.TSoFar, Top.Jobs[Top.job_ix]))
          => Len(stack') <= Len(stack)]_vars

\* What the missing pruning costs is time only: below a node with a job
\* that fits nowhere no tiling is ever completed.
C20_NothingCompletedBelow ==
    (pc = "es" /\ stack # <<>>) =>
        \A i \in 1..(Len(stack) - 1) :
            (/\ stack[i].phase \in {"unrot", "rot"}
             /\ \E j \in 1..Len(stack[i].Jobs) :
                   NoAddPoint(stack[i].TSoFar, stack[i].Jobs[j]))
                => Top.Jobs # <<>>

\* A node where the first remaining job fits nowhere and the second one is
\* being placed all the same.
C20_PlacedAfterDeadJob ==
    /\ InJobLoop
    /\ Top.job_ix = 2
    /\ NoAddPoint(Top.TSoFar, Top.Jobs[1])
    /\ Top.k <= Len(FramePts(Top))

\* The frames that are in the stack before and after a step are the same
\* calls of ExhaustiveSearch.
SameCalls == 1..Min2(Len(stack), Len(stack'))

\* C19: every branch of ExhaustiveSearch adds its rectangle to a private
\* clone: the placed rectangles of the tiling a call was given stay the same
\* for as long as the call and its callers run, whatever is added in the
\* branches below or beside it, a branch starts from its caller's rectangles
\* and one more, and the tiling stored as bestTiling is not modified while
\* it is the best.
C19_BranchesOnPrivateClones ==
    [][/\ \A i \in SameCalls : stack'[i].TSoFar.rects = stack[i].TSoFar.rects
       /\ Len(stack') > Len(stack) /\ stack # <<>> =>
             /\ Len(Top.TSoFar.rects) + 1 = Len(stack'[Len(stack')].TSoFar.rects)
             /\ SubSeq(stack'[Len(stack')].TSoFar.rects, 1, Len(Top.TSoFar.rects))
                   = Top.TSoFar.rects
       /\ (x.bestTiling # None /\ x'.bestOid = x.bestOid) =>
             x'.bestTiling = x.bestTiling]_vars

\* C19 witness: a call that has a completed branch behind it, stored as the
\* best tiling, is starting a sibling branch from the rectangles it was
\* given.
C19_Witness ==
    /\ InJobLoop
    /\ Top.k <= Len(FramePts(Top))
    /\ Top.k > 1 \/ Top.job_ix > 1 \/ Top.phase = "rot"
    /\ x.bestTiling # None
    /\ Len(x.bestTiling[1].rects) > Len(Top.TSoFar.rects)
    /\ Top.TSoFar.rects # <<>>
    /\ Top.oid # x.bestOid

\* Every call of ExhaustiveSearch runs on an object of its own, and the best
\* tiling is an object no running call holds.
C19_OneObjectPerCall ==
    pc = "es" =>
        /\ \A i, j \in 1..Len(stack) : i # j => stack[i].oid # stack[j].oid
        /\ \A i \in 1..Len(stack) :
              stack[i].Jobs # <<>> => stack[i].oid # x.bestOid

\* Every tiling the search holds: the trial's, the running calls', the best.
HeldTilings ==
    {stack[i].TSoFar : i \in 1..Len(stack)}
        \cup (IF currentTiling = None THEN {} ELSE {currentTiling[1]})
        \cup (IF x.bestTiling = None THEN {} ELSE {x.bestTiling[1]})

Square(job) == config.catalog[job].w = config.catalog[job].h

NoSquareRotated(T) == \A i \in 1..Len(T.rects) : T.rects[i].rot => ~Square(T.rects[i].job)

\* C21: the rotated counterpart of a square job is never placed, neither by
\* ExhaustiveSearch nor by the random prefix of RandomSearch.
C21_SquareNeverRotated == \A T \in HeldTilings : NoSquareRotated(T)

\* C21 for ExhaustiveSearch: no call places the rotated counterpart of a
\* square job, whatever it was handed.
C21_ExhaustiveOnly ==
    [][(pc = "es" /\ Len(stack') > Len(stack)) =>
          LET T == stack'[Len(stack')].TSoFar
              r == T.rects[Len(T.rects)]
          IN r.rot => ~Square(r.job)]_vars

\* The random prefix has placed the rotated counterpart of a square job.
C21_PrefixRotatedSquare ==
    /\ pc = "prefix"
    /\ ~NoSquareRotated(currentTiling[1])

\* The points validAddPoints gives for a w x h rectangle on the trial's
\* tiling, its inlets removed.
PrefixPoints(w, h) ==
    LET T == removeInlets(currentTiling[1], minDimension(L))
    IN {p \in T.pts : Fits(T, p, w, h)}

PrefixSizes(e) ==
    {<<FALSE, e.Xdim + config.xspacing, e.Ydim + config.yspacing>>,
     <<TRUE, e.Ydim + config.xspacing, e.Xdim + config.yspacing>>}

\* The orientation and size the coin of the step has chosen: heads the job
\* as it is, tails its rotated counterpart.
CoinSize(e) ==
    IF hist'.coin = 1
    THEN <<FALSE, e.Xdim + config.xspacing, e.Ydim + config.yspacing>>
    ELSE <<TRUE, e.Ydim + config.xspacing, e.Xdim + config.yspacing>>

PrefixPlaced ==
    LET e == L[joborder[pfx]]
        cur == currentTiling[1].rects
        new == currentTiling'[1].rects
        r == new[Len(new)]
    IN /\ pfx' = pfx + 1
       /\ new = Append(cur, r)
       /\ r.job = e.job
       /\ <<r.rot, r.w, r.h>> = CoinSize(e)
       /\ <<r.x, r.y>> \in PrefixPoints(r.w, r.h)
       /\ x' = x /\ stack' = stack

PrefixAbandoned ==
    LET e == L[joborder[pfx]]
    IN /\ pc' = "count"
       /\ currentTiling'[1].rects = currentTiling[1].rects
       /\ PrefixPoints(CoinSize(e)[2], CoinSize(e)[3]) = {}
       /\ x' = x /\ stack' = <<>> /\ newTiling' = None

\* C22: in a random trial each prefix job is placed once, in one
\* orientation, at a valid add-point of that orientation; when the chosen
\* orientation has none the trial is abandoned without trying the other and
\* without the exhaustive tail, the best tiling and score stay, placements
\* is incremented by one and the next trial starts from an empty tiling.
C22_PrefixPlacesOrAbandons ==
    [][/\ (pc = "prefix" /\ pfx <= M /\ pc' \in {"prefix", "count"}) =>
             IF pc' = "prefix" THEN PrefixPlaced ELSE PrefixAbandoned
       /\ (pc = "count" /\ pc' # pc /\ intr' # "external") =>
             /\ x'.placements = Min2(x.placements + 1, MaxCount)
             /\ x'.bestTiling = x.bestTiling
             /\ x'.bestScore = x.bestScore
       /\ (pc = "trial" /\ pc' = "prefix") =>
             currentTiling'[1].rects = <<>>]_vars

\* C22 witness: a trial was abandoned at its second prefix job, in the
\* orientation that has no add-point while the other one has.
C22_Witness ==
    /\ pc = "count"
    /\ pfx = 2 /\ pfx <= M
    /\ Len(currentTiling[1].rects) = 1
    /\ LET e == L[joborder[pfx]]
       IN \E sz \in PrefixSizes(e) : PrefixPoints(sz[2], sz[3]) # {}

\* A step of a running search, the constructor and the entry of run apart.
Searching == x.bound /\ x'.bound /\ pc \notin {"construct", "search"}

\* A periodic report: the step that sets lastCheckTime.
Report == Searching /\ x'.lastCheckTime # x.lastCheckTime

\* More than syncPeriod (in tenths of the clock's unit) after the last report.
PeriodPassed == 10 * now > 10 * x.lastCheckTime + x.syncPeriod

\* C23: status reports and the timeout check are time-gated: a report is
\* made only when now > lastCheckTime + syncPeriod and sets lastCheckTime to
\* now, so that consecutive reports are more than syncPeriod apart and
\* lastCheckTime never decreases, and the timeout is raised only at a
\* report.
C23_ReportsTimeGated ==
    [][/\ Report => PeriodPassed /\ x'.lastCheckTime = now
       /\ (x.bound /\ x'.bound) => x'.lastCheckTime >= x.lastCheckTime
       /\ (intr = "none" /\ intr' = "timeout") =>
             /\ PeriodPassed
             /\ x'.lastCheckTime = now]_vars

\* C23 witness: a second report was made, a period after the first.
C23_Witness ==
    /\ x.bound
    /\ config.engine # "tile_search1"
    /\ x.placements >= 1
    /\ x.lastCheckTime > x.startTime
    /\ 10 * x.lastCheckTime > 10 * x.startTime + x.syncPeriod

\* C23: a trial that ends within the period is counted without a report.
C23_TrialWithoutReport ==
    /\ pc = "trial"
    /\ x.placements = 2
    /\ now = x.startTime
    /\ x.lastCheckTime <= now

\* A step of tilesearch.TileSearch.RandomSearch, the ExhaustiveSearch it
\* calls included.
InRandomSearch ==
    /\ config.engine = "tile_search2"
    /\ pc \in {"trial", "prefix", "es", "count"}
    /\ pc' \in {"trial", "prefix", "es", "count", "handler"}

RECURSIVE Boards(_)
Boards(element) ==
    IF element.tag = "board" THEN 1
    ELSE SumSeq([i \in 1..Len(element.children) |-> Boards(element.children[i])])

RowElements(root) == SelectSeq(root, LAMBDA e : e.tag = "row")

\* The tree mirrors the element: a Row for a row, a Col for a col, a leaf for
\* a board, child by child in document order.
RECURSIVE Mirrors(_, _)
Mirrors(node, element) ==
    IF element.tag = "board" THEN node.kind = "JobLayout"
    ELSE /\ node.kind = (IF element.tag = "row" THEN "Row" ELSE "Col")
         /\ Len(node.jobs) = Len(element.children)
         /\ \A i \in 1..Len(element.children) :
               Mirrors(node.jobs[i], element.children[i])

\* C25: the tree parseLayoutFile returns mirrors the layout file, one Row
\* per top-level row element with a leaf for each board, a Col for each col
\* and a Row for each row inside, so that the Placement made from it has
\* every board of the file once.
C25_LayoutMirrorsFile ==
    pc = "placed_layout" =>
        LET rows == RowElements(disk.layoutfile)
            tree == parseLayoutFile(disk.layoutfile).Rows
        IN /\ Len(tree) = Len(rows)
           /\ \A i \in 1..Len(rows) : Mirrors(tree[i], rows[i])
           /\ Len(Place) = SumSeq([i \in 1..Len(rows) |-> Boards(rows[i])])

\* C25, the part that holds: one Row per top-level row element.
C25_OneRowPerRowElement ==
    pc = "placed_layout" =>
        LET rows == RowElements(disk.layoutfile)
            tree == parseLayoutFile(disk.layoutfile).Rows
        IN /\ Len(tree) = Len(rows)
           /\ \A i \in 1..Len(tree) : tree[i].kind = "Row"

\* What the parser does with the boards: the Placement of a layout file is
\* empty, whatever boards the file has.
C25_NoBoardPlaced == pc = "placed_layout" => Place = <<>>

\* A layout file with a board in a row was parsed and placed.
C25_BoardInRowParsed ==
    /\ pc = "placed_layout"
    /\ \E i \in 1..Len(disk.layoutfile) :
          /\ disk.layoutfile[i].tag = "row"
          /\ Boards(disk.layoutfile[i]) > 0

\* The scoring step of a trial of tilesearch2.TileSearch.run.
ScoringStep == config.engine = "tilesearch2" /\ pc = "score" /\ intr' # "external"

\* C27: in run of tilesearch2 a trial whose tail found no tiling leaves
\* bestTiling and bestScore as they were and raises nothing, the loop going
\* on to the count of the trial; so too while bestTiling is still None and
\* bestScore infinite.
C27_NoneTailKeepsBest ==
    [][(ScoringStep /\ newTiling = None) =>
          /\ x'.bestTiling = x.bestTiling
          /\ x'.bestScore = x.bestScore
          /\ outcome' = outcome
          /\ pc' = "count"]_vars

\* C27 once a best tiling exists.
C27_AfterFirstBest ==
    [][(ScoringStep /\ newTiling = None /\ x.bestTiling # None) =>
          /\ x'.bestTiling = x.bestTiling
          /\ x'.bestScore = x.bestScore
          /\ outcome' = outcome
          /\ pc' = "count"]_vars

\* A tail without a tiling after a best tiling was found.
C27_NoneTailAfterBest ==
    /\ config.engine = "tilesearch2"
    /\ pc = "score"
    /\ newTiling = None
    /\ x.bestTiling # None

\* What the trial's tail gives in tilesearch.RandomSearch: the score of
\* ExhaustiveSearch on the remaining jobs from the trial's tiling.
TailScore ==
    ExhaustiveScore([i \in 1..(N - M) |-> L[joborder[M + i]]], currentTiling[1], TRUE)

EnginesAgreeOnTrial ==
    /\ outcome' = outcome
    /\ pc' = "count"
    /\ x'.bestScore = Min2(x.bestScore, TailScore)
    /\ (x'.bestTiling = None) <=> (x.bestTiling = None /\ TailScore = Inf)
    /\ x'.bestTiling # None => area(x'.bestTiling[1]) = x'.bestScore
    /\ x'.placements = x.placements

\* C26: run of tilesearch2 and RandomSearch of tilesearch are equivalent:
\* from the same best-so-far and placements, on the same jobs, panel,
\* spacing, tail size and draws, a trial of run ends with the bestScore, the
\* bestTiling and the placements a trial of RandomSearch ends with.
C26_EnginesEquivalent == [][ScoringStep => EnginesAgreeOnTrial]_vars

\* C26 for the trials of run that do not meet the failure of C27.
C26_EquivalentButNoneTail ==
    [][(ScoringStep /\ (newTiling # None \/ x.bestTiling # None))
          => EnginesAgreeOnTrial]_vars

\* RandomSearch of tilesearch ends the tail of a trial on the smaller of the
\* best score before and the score of the tail.
C26_RandomSearchTail ==
    (config.engine = "tile_search2" /\ pc = "count" /\ hist.completed # None
        /\ hist.verdict # "unscored") =>
        /\ x.bestScore <= TailScore
        /\ x.bestScore <= area(hist.completed[1])

\* T holds every entry of the job list once.
HoldsAllJobs(T) ==
    /\ Len(T.rects) = N
    /\ \A j \in 1..Len(config.catalog) :
          Cardinality({i \in 1..Len(T.rects) : T.rects[i].job = j})
             = Cardinality({i \in 1..N : L[i].job = j})

BestPairConsistent ==
    /\ (x.bestTiling = None) <=> (x.bestScore = Inf)
    /\ x.bestTiling # None =>
          /\ x.bestScore = area(x.bestTiling[1])
          /\ HoldsAllJobs(x.bestTiling[1])

\* C28: the best-so-far pair is consistent between trials, and at every
\* other moment of a search: bestTiling is None exactly when bestScore is
\* infinite, otherwise bestScore is the area of bestTiling and bestTiling
\* holds all N job entries; bestScore never increases and bestTiling never
\* goes back to None.
C28_BestPairConsistent ==
    [][x'.bound =>
          /\ BestPairConsistent'
          /\ x.bound => /\ x'.bestScore <= x.bestScore
                        /\ x.bestTiling # None => x'.bestTiling # None]_vars

\* C28 witness: between two trials, with a best tiling of two entries
\* smaller than the panel.
C28_Witness ==
    /\ pc = "trial"
    /\ x.placements >= 2
    /\ N = 2
    /\ x.bestTiling # None
    /\ x.bestScore = area(x.bestTiling[1])
    /\ x.bestScore < config.PX * config.PY

\* C28 witness: between two trials with no tiling found yet.
C28_WitnessNone ==
    /\ pc = "trial"
    /\ x.placements >= 1
    /\ config.RandomSearchExhaustiveJobs > 0
    /\ x.bestTiling = None
    /\ x.bestScore = Inf

\* Somewhere in the search of Jobs from T a job has no add-point in an
\* orientation that is tried for it.
RECURSIVE AnyPruned(_, _)
AnyPruned(Jobs, T) ==
    /\ Jobs # <<>>
    /\ LET T0 == removeInlets(T, minInletSize(Jobs))
       IN \E i \in 1..Len(Jobs) :
             LET e == Jobs[i]
                 rest == remaining_jobs(Jobs, i)
                 a1 == addpoints1(T0, e)
                 a2 == addpoints2(T0, e)
             IN \/ a1 = <<>>
                \/ e.Xdim # e.Ydim /\ a2 = <<>>
                \/ \E k \in 1..Len(a1) :
                      AnyPruned(rest, addJob(clone(T0), a1[k], UnrotSize(e)[1],
                                             UnrotSize(e)[2], e.job, FALSE))
                \/ \E k \in 1..Len(a2) :
                      AnyPruned(rest, addJob(clone(T0), a2[k], RotSize(e)[1],
                                             RotSize(e)[2], e.job, TRUE))

NoSquareJob == \A i \in 1..N : L[i].Xdim # L[i].Ydim

Exhaustive == config.engine = "tile_search1" /\ x.bound

\* The calls on the stack were all made from the first add-point of their
\* loop: the path of one job ordering and orientation assignment.
FirstPath == \A i \in 1..Len(stack) : stack[i].firstAddPoint

\* C29: in a top-level ExhaustiveSearch the permutations counter advances
\* by one at a completed tiling reached through first add-points only and
\* not at the other add-points, by 2^(number of remaining jobs) at a job
\* orientation without add-point on such a path, and never exceeds
\* possiblePermutations = 2^N * N!; after a search in which nothing was
\* pruned and no job is square it equals possiblePermutations.
C29_PermutationsCounted ==
    [][(Exhaustive /\ pc = "es" /\ intr' = "none") =>
          /\ x'.permutations <= x.possiblePermutations
          /\ x.possiblePermutations = Pow2(N) * factorial(N)
          /\ x'.permutations =
                x.permutations +
                (IF ~FirstPath THEN 0
                 ELSE IF Top.Jobs = <<>> THEN 1
                 ELSE IF Top.phase \in {"unrot", "rot"} /\ FramePts(Top) = <<>>
                 THEN Pow2(Len(Top.Jobs) - 1)
                 ELSE 0)
          /\ (pc' # "es" /\ NoSquareJob /\ ~AnyPruned(L, EmptyPanel)) =>
                x'.permutations = x.possiblePermutations]_vars

\* C29 witness: the search of two jobs, neither square, has ended with
\* nothing pruned and all 8 permutations counted.
C29_Witness ==
    /\ Exhaustive /\ intr = "none" /\ pc = "done"
    /\ N = 2
    /\ NoSquareJob
    /\ ~AnyPruned(L, EmptyPanel)
    /\ x.permutations = 8

\* C29 witness: a job orientation without add-point was counted as two
\* permutations, one job remaining.
C29_WitnessPruned ==
    /\ Exhaustive /\ pc = "es" /\ stack # <<>>
    /\ Top.phase = "rot"
    /\ Top.firstAddPoint
    /\ Len(Top.Jobs) = 2
    /\ addpoints1(Top.TSoFar, Top.Jobs[Top.job_ix]) = <<>>
    /\ x.permutations >= 2

\* How far a call of ExhaustiveSearch has come: the job of its loop, the
\* part of the loop body, the add-point; a call that has returned, or was
\* not made, is past every position.
PhaseNo(phase) ==
    IF phase = "call" THEN 0 ELSE IF phase = "unrot" THEN 1
    ELSE IF phase = "rot" THEN 2 ELSE 3

Position(stk, i) ==
    IF i > Len(stk) THEN <<Inf, 0, 0>>
    ELSE <<stk[i].job_ix, PhaseNo(stk[i].phase), stk[i].k>>

Before(p, q) ==
    \/ p[1] < q[1]
    \/ p[1] = q[1] /\ p[2] < q[2]
    \/ p[1] = q[1] /\ p[2] = q[2] /\ p[3] < q[3]

\* The search has moved on: at the outermost call whose position changed,
\* the position is a later one.
Advanced(old, new) ==
    \E i \in 1..Max2(Len(old), Len(new)) :
        /\ \A j \in 1..(i - 1) : Position(old, j) = Position(new, j)
        /\ Before(Position(old, i), Position(new, i))

\* The positions are those of finite loops and the depth is at most the
\* number of jobs of the outermost call.
BoundedSearch(stk) ==
    /\ Len(stk) <= Len(stk[1].Jobs) + 1
    /\ \A i \in 1..Len(stk) :
          /\ stk[i].job_ix \in 1..Max2(Len(stk[i].Jobs), 1)
          /\ stk[i].k \in 1..(Cardinality(stk[i].TSoFar.pts) + 1)
          /\ i > 1 => Len(stk[i].Jobs) = Len(stk[i - 1].Jobs) - 1

\* C30: every ExhaustiveSearch call terminates by itself: each recursive
\* call gets a job list one shorter than its caller's, the depth is at most
\* the number of jobs, every loop is over a finite set of jobs,
\* orientations and add-points and every step takes the search to a later
\* position of these loops; the prefix of a random trial moves on to the
\* next job or ends at every step, so the trial terminates too.
C30_SearchAdvances ==
    [][/\ (pc = "es" /\ pc' = "es") =>
             /\ Advanced(stack, stack')
             /\ BoundedSearch(stack')
       /\ (pc = "prefix" /\ pc' = "prefix") =>
             /\ pfx' = pfx + 1
             /\ pfx' <= M + 1]_vars

\* C30 witness: a search of three jobs is three calls deep below the
\* outermost one, which is at its second job.
C30_Witness ==
    /\ pc = "es"
    /\ Len(stack) = 4
    /\ Len(stack[1].Jobs) = 3
    /\ stack[1].job_ix = 2
    /\ Top.Jobs = <<>>

====
